---- MODULE Spec2Model ----
(***************************************************************************)
(* A model of the Power BI chat server (src/app_test5.py): fuzzy_match,    *)
(* search_tables_and_columns, detect_user_intent, parse_measure_request,   *)
(* run_agent_once, the chat API and the websocket endpoint. Each area has  *)
(* its own specification (SpecFuzzy, SpecSearch, SpecUtterance, SpecAgent, *)
(* SpecServer), which leaves the variables of the other areas alone.       *)
(*                                                                         *)
(* A Python str is modelled as a sequence of one-character strings, so     *)
(* that lower-casing, substring search, the regular-expression scan and    *)
(* difflib's matching blocks are computed character by character.          *)
(* A float score is modelled as an exact fraction <<num, den>>; every      *)
(* score the code produces is either a literal (1.0, 0.9) or the correctly *)
(* rounded quotient 2.0*M/T of small integers, so comparing the fractions  *)
(* agrees with comparing the floats.                                       *)
(***************************************************************************)
EXTENDS Integers, Sequences, FiniteSets, TLC

VARIABLES
    pc,          \* the operation that produced the current state, or "init"
    query,       \* fuzzy_match: query
    options,     \* fuzzy_match: options
    threshold,   \* fuzzy_match: threshold
    matches,     \* fuzzy_match: the returned list
    user_input,  \* detect_user_intent / parse_measure_request / run_agent_once
    intent,      \* detect_user_intent: the returned intent
    info,        \* parse_measure_request: the returned dict
    hints,       \* run_agent_once: hints
    enhanced,    \* run_agent_once: enhanced (the text sent to the agent)
    all_messages, \* run_agent_once: result.get("messages", [])
    error,       \* run_agent_once: str(e) of the exception ainvoke raised
    cleaned,     \* run_agent_once: the successive values of cleaned /
                 \* result_text in the hint-removal loop
    response,    \* run_agent_once: the returned text
    table_query, \* search_tables_and_columns: table_query
    column_query, \* search_tables_and_columns: column_query
    tools,       \* search_tables_and_columns: what load_mcp_tools gave
    invoked,     \* the tools invoked, in order, each with its arguments
    schema_result, \* search_tables_and_columns: what the tool gave
    result,      \* search_tables_and_columns: the returned dict
    raised,      \* search_tables_and_columns: an exception left the call
    agent_initialized,    \* the global agent_initialized
    initialization_error, \* the global initialization_error
    chat_sessions, \* the global chat_sessions: session id -> session
    connections, \* per websocket connection: where its handler is, its
                 \* current_session_id, the user_input of the message it
                 \* is handling (None between two messages), the frames
                 \* sent to the client, how many messages it accepted and
                 \* how many calls of run_agent_once it made, under which
                 \* session ids it wrote to the store (wrote), and whether
                 \* the session of the message it is handling was deleted
                 \* since the message was received (deleted_during)
    http_response, \* what the last call of the chat API returned
    frames,      \* how many frames the websocket handlers received
    calls,       \* how many calls of the chat API were made
    deleted_ids  \* the session ids delete_chat took out of the store

agentVars == <<all_messages, error, cleaned, response>>
searchVars == <<table_query, column_query, tools, invoked, schema_result,
                result, raised>>

wsVars == <<agent_initialized, initialization_error, chat_sessions,
            connections, http_response, frames, calls, deleted_ids>>

vars == <<pc, query, options, threshold, matches,
          user_input, intent, info, hints, enhanced, agentVars, searchVars,
          wsVars>>

fuzzyVars == <<query, options, threshold, matches>>
nlVars == <<user_input, intent, info, hints, enhanced>>

\* Python's None: a value that is no string of characters (every element of
\* a modelled str is a one-character string), no list of entries and no match
None == <<"None">>

\* The variables of the areas a specification does not exercise
restVars == <<agentVars, searchVars, wsVars>>

agentIdle ==
    /\ all_messages = None
    /\ error = None
    /\ cleaned = None
    /\ response = None

searchIdle ==
    /\ table_query = None
    /\ column_query = None
    /\ tools = None
    /\ invoked = <<>>
    /\ schema_result = None
    /\ result = None
    /\ raised = FALSE

wsIdle ==
    /\ agent_initialized = FALSE
    /\ initialization_error = None
    /\ chat_sessions = <<>>
    /\ connections = <<>>
    /\ http_response = None
    /\ frames = 0
    /\ calls = 0
    /\ deleted_ids = {}

restIdle == agentIdle /\ searchIdle /\ wsIdle

-----------------------------------------------------------------------------
(* Strings *)

UpperLetters ==
    <<"A", "B", "C", "D", "E", "F", "G", "H", "I", "J", "K", "L", "M",
      "N", "O", "P", "Q", "R", "S", "T", "U", "V", "W", "X", "Y", "Z">>

LowerLetters ==
    <<"a", "b", "c", "d", "e", "f", "g", "h", "i", "j", "k", "l", "m",
      "n", "o", "p", "q", "r", "s", "t", "u", "v", "w", "x", "y", "z">>

Digits == {"0", "1", "2", "3", "4", "5", "6", "7", "8", "9"}

Range(s) == {s[i] : i \in DOMAIN s}

\* the lower-case letter of each upper-case letter
ToLower ==
    [c \in Range(UpperLetters) |->
        LowerLetters[CHOOSE i \in DOMAIN UpperLetters : UpperLetters[i] = c]]

\* the upper-case letter of each lower-case letter
ToUpper ==
    [c \in Range(LowerLetters) |->
        UpperLetters[CHOOSE i \in DOMAIN LowerLetters : LowerLetters[i] = c]]

\* str.lower() on one ASCII character
LowerChar(c) == IF c \in DOMAIN ToLower THEN ToLower[c] ELSE c

\* str.lower()
Lower(s) == [i \in DOMAIN s |-> LowerChar(s[i])]

\* str.upper() on one ASCII character
UpperChar(c) == IF c \in DOMAIN ToUpper THEN ToUpper[c] ELSE c

\* str.upper()
Upper(s) == [i \in DOMAIN s |-> UpperChar(s[i])]

\* Python's "w in s" on strings: w occurs in s as a contiguous substring
\* (the empty string occurs in every string).
Contains(s, w) ==
    \E i \in 0..(Len(s) - Len(w)) : SubSeq(s, i + 1, i + Len(w)) = w

\* any(w in s for w in words)
AnyIn(words, s) == \E k \in DOMAIN words : Contains(s, words[k])

-----------------------------------------------------------------------------
(* difflib.SequenceMatcher(None, a, b).ratio(), no junk, len(b) < 200 *)

\* find_longest_match(alo, ahi, blo, bhi) over the 1-based inclusive ranges
\* alo..ahi of a and blo..bhi of b: the longest common block, of those the
\* one starting earliest in a, of those the one starting earliest in b;
\* <<alo, blo, 0>> when no character matches.
FindLongestMatch(a, b, alo, ahi, blo, bhi) ==
    LET blocks == {blk \in (alo..ahi) \X (blo..bhi) \X (1..(ahi - alo + 1)) :
                       /\ blk[1] + blk[3] - 1 <= ahi
                       /\ blk[2] + blk[3] - 1 <= bhi
                       /\ SubSeq(a, blk[1], blk[1] + blk[3] - 1)
                            = SubSeq(b, blk[2], blk[2] + blk[3] - 1)}
        Better(x, y) == \/ x[3] > y[3]
                        \/ x[3] = y[3] /\ x[1] < y[1]
                        \/ x[3] = y[3] /\ x[1] = y[1] /\ x[2] <= y[2]
    IN IF blocks = {} THEN <<alo, blo, 0>>
       ELSE CHOOSE x \in blocks : \A y \in blocks : Better(x, y)

\* get_matching_blocks(): the total size of the matching blocks, found by
\* taking the longest block and recursing to its left and to its right.
RECURSIVE MatchingSize(_, _, _, _, _, _)
MatchingSize(a, b, alo, ahi, blo, bhi) ==
    IF alo > ahi \/ blo > bhi THEN 0
    ELSE LET m == FindLongestMatch(a, b, alo, ahi, blo, bhi)
         IN IF m[3] = 0 THEN 0
            ELSE m[3]
                 + MatchingSize(a, b, alo, m[1] - 1, blo, m[2] - 1)
                 + MatchingSize(a, b, m[1] + m[3], ahi, m[2] + m[3], bhi)

\* ratio(): 2.0 * matches / length, and 1.0 when both strings are empty
Ratio(a, b) ==
    IF Len(a) + Len(b) = 0 THEN <<1, 1>>
    ELSE <<2 * MatchingSize(a, b, 1, Len(a), 1, Len(b)), Len(a) + Len(b)>>

\* float comparison of two scores held as fractions with positive denominators
ScoreGeq(x, y) == x[1] * y[2] >= y[1] * x[2]
ScoreEq(x, y) == x[1] * y[2] = y[1] * x[2]

-----------------------------------------------------------------------------
(* fuzzy_match *)

ExactScore == <<1, 1>>
ContainsScore == <<9, 10>>
DefaultThreshold == <<6, 10>>

\* line 39: query_lower == option_lower
IsExactMatch(query_lower, option_lower) == query_lower = option_lower

\* Mutant: only the query is looked for in the option, not the reverse.
IsContainsMatchOneWay(query_lower, option_lower) ==
    Contains(option_lower, query_lower)

\* Mutant: a substring test that does not find the empty string.
IsContainsMatchNonEmpty(query_lower, option_lower) ==
    /\ query_lower # <<>>
    /\ option_lower # <<>>
    /\ Contains(option_lower, query_lower) \/ Contains(query_lower, option_lower)

\* line 44: query_lower in option_lower or option_lower in query_lower
IsContainsMatch(query_lower, option_lower) ==
    Contains(option_lower, query_lower) \/ Contains(query_lower, option_lower)

\* Mutant: ratio > threshold.
MeetsThresholdStrict(ratio, thr) == ~ScoreGeq(thr, ratio)

\* line 51: ratio >= threshold
MeetsThreshold(ratio, thr) == ScoreGeq(ratio, thr)

\* Mutant: the exact tier without its continue, so an exact match falls
\* through to the contains tier as well.
MatchOptionNoContinue(query_lower, option, thr) ==
    LET option_lower == Lower(option)
        ratio == Ratio(query_lower, option_lower)
        exact == IF query_lower = option_lower
                 THEN <<[name |-> option, score |-> <<1, 1>>, match_type |-> "exact"]>>
                 ELSE <<>>
    IN exact \o
       (IF Contains(option_lower, query_lower) \/ Contains(query_lower, option_lower)
        THEN <<[name |-> option, score |-> <<9, 10>>, match_type |-> "contains"]>>
        ELSE IF ScoreGeq(ratio, thr)
        THEN <<[name |-> option, score |-> ratio, match_type |-> "fuzzy"]>>
        ELSE <<>>)

\* One iteration of the loop of lines 35-52: the entries appended for option.
MatchOption(query_lower, option, thr) ==
    LET option_lower == Lower(option)
        ratio == Ratio(query_lower, option_lower)
    IN IF IsExactMatch(query_lower, option_lower)
       THEN <<[name |-> option, score |-> ExactScore, match_type |-> "exact"]>>
       ELSE IF IsContainsMatch(query_lower, option_lower)
       THEN <<[name |-> option, score |-> ContainsScore, match_type |-> "contains"]>>
       ELSE IF MeetsThreshold(ratio, thr)
       THEN <<[name |-> option, score |-> ratio, match_type |-> "fuzzy"]>>
       ELSE <<>>

\* The loop of lines 35-52 over options, in order.
RECURSIVE CollectMatches(_, _, _)
CollectMatches(query_lower, opts, thr) ==
    IF opts = <<>> THEN <<>>
    ELSE MatchOption(query_lower, Head(opts), thr)
         \o CollectMatches(query_lower, Tail(opts), thr)

\* Mutant: an ascending stable sort that is then reversed, which reverses
\* the entries of equal score.
RECURSIVE SortByScoreTiesReversed(_)
SortByScoreTiesReversed(ms) ==
    IF ms = <<>> THEN <<>>
    ELSE LET sorted == SortByScoreTiesReversed(SubSeq(ms, 1, Len(ms) - 1))
             x == ms[Len(ms)]
             k == Cardinality({i \in DOMAIN sorted :
                                  ~ScoreGeq(x.score, sorted[i].score)})
         IN SubSeq(sorted, 1, k) \o <<x>> \o SubSeq(sorted, k + 1, Len(sorted))

\* list.sort(key=score, reverse=True): a stable sort, highest score first;
\* entries of equal score keep their order. Each entry is inserted after the
\* entries already placed whose score is at least its own.
RECURSIVE SortByScore(_)
SortByScore(ms) ==
    IF ms = <<>> THEN <<>>
    ELSE LET sorted == SortByScore(SubSeq(ms, 1, Len(ms) - 1))
             x == ms[Len(ms)]
             k == Cardinality({i \in DOMAIN sorted :
                                  ScoreGeq(sorted[i].score, x.score)})
         IN SubSeq(sorted, 1, k) \o <<x>> \o SubSeq(sorted, k + 1, Len(sorted))

\* fuzzy_match(query, options, threshold)
fuzzy_match(q, opts, thr) == SortByScore(CollectMatches(Lower(q), opts, thr))

-----------------------------------------------------------------------------
(* detect_user_intent *)

\* line 116
ShowKeywords ==
    << <<"s", "h", "o", "w">>,
       <<"d", "i", "s", "p", "l", "a", "y">>,
       <<"v", "i", "e", "w">>,
       <<"g", "e", "t">>,
       <<"w", "h", "a", "t", " ", "i", "s">>,
       <<"t", "e", "l", "l", " ", "m", "e">>,
       <<"g", "i", "v", "e", " ", "m", "e">> >>

\* line 119
CreateKeywords ==
    << <<"c", "r", "e", "a", "t", "e">>,
       <<"a", "d", "d">>,
       <<"m", "a", "k", "e">>,
       <<"b", "u", "i", "l", "d">>,
       <<"n", "e", "w">> >>

\* line 122
UpdateKeywords ==
    << <<"u", "p", "d", "a", "t", "e">>,
       <<"m", "o", "d", "i", "f", "y">>,
       <<"c", "h", "a", "n", "g", "e">>,
       <<"e", "d", "i", "t">> >>

\* line 125
DeleteKeywords ==
    << <<"d", "e", "l", "e", "t", "e">>,
       <<"r", "e", "m", "o", "v", "e">>,
       <<"d", "r", "o", "p">> >>

IntentShow == <<"s", "h", "o", "w">>
IntentCreate == <<"c", "r", "e", "a", "t", "e">>
IntentUpdate == <<"u", "p", "d", "a", "t", "e">>
IntentDelete == <<"d", "e", "l", "e", "t", "e">>
IntentUnknown == <<"u", "n", "k", "n", "o", "w", "n">>

\* Mutant: the create keywords are tested before the show keywords.
detect_user_intent_create_first(input) ==
    LET lower == Lower(input)
    IN IF AnyIn(CreateKeywords, lower) THEN IntentCreate
       ELSE IF AnyIn(ShowKeywords, lower) THEN IntentShow
       ELSE IF AnyIn(UpdateKeywords, lower) THEN IntentUpdate
       ELSE IF AnyIn(DeleteKeywords, lower) THEN IntentDelete
       ELSE IntentUnknown

\* detect_user_intent(user_input), lines 112-128
detect_user_intent(input) ==
    LET lower == Lower(input)
    IN IF AnyIn(ShowKeywords, lower) THEN IntentShow
       ELSE IF AnyIn(CreateKeywords, lower) THEN IntentCreate
       ELSE IF AnyIn(UpdateKeywords, lower) THEN IntentUpdate
       ELSE IF AnyIn(DeleteKeywords, lower) THEN IntentDelete
       ELSE IntentUnknown

-----------------------------------------------------------------------------
(* parse_measure_request *)

\* lines 138-143: the keyword groups, in the order of the if/elif chain
SumKeywords == << <<"t", "o", "t", "a", "l">>, <<"s", "u", "m">> >>
AverageKeywords == << <<"a", "v", "e", "r", "a", "g", "e">>, <<"a", "v", "g">>, <<"m", "e", "a", "n">> >>
CountKeywords == << <<"c", "o", "u", "n", "t">>, <<"n", "u", "m", "b", "e", "r">> >>
DistinctKeywords == << <<"u", "n", "i", "q", "u", "e">>, <<"d", "i", "s", "t", "i", "n", "c", "t">> >>
MinKeywords == << <<"m", "i", "n">>, <<"m", "i", "n", "i", "m", "u", "m">> >>
MaxKeywords == << <<"m", "a", "x">>, <<"m", "a", "x", "i", "m", "u", "m">> >>

OpSum == <<"S", "U", "M">>
OpAverage == <<"A", "V", "E", "R", "A", "G", "E">>
OpCount == <<"C", "O", "U", "N", "T">>
OpDistinctCount == <<"D", "I", "S", "T", "I", "N", "C", "T", "C", "O", "U", "N", "T">>
OpMin == <<"M", "I", "N">>
OpMax == <<"M", "A", "X">>

\* Mutant: the AVERAGE group is tested before the SUM group.
DetectOperationAverageFirst(lower) ==
    IF AnyIn(AverageKeywords, lower) THEN OpAverage
    ELSE IF AnyIn(SumKeywords, lower) THEN OpSum
    ELSE IF AnyIn(CountKeywords, lower) THEN OpCount
    ELSE IF AnyIn(DistinctKeywords, lower) THEN OpDistinctCount
    ELSE IF AnyIn(MinKeywords, lower) THEN OpMin
    ELSE IF AnyIn(MaxKeywords, lower) THEN OpMax
    ELSE None

\* lines 137-143: op
DetectOperation(lower) ==
    IF AnyIn(SumKeywords, lower) THEN OpSum
    ELSE IF AnyIn(AverageKeywords, lower) THEN OpAverage
    ELSE IF AnyIn(CountKeywords, lower) THEN OpCount
    ELSE IF AnyIn(DistinctKeywords, lower) THEN OpDistinctCount
    ELSE IF AnyIn(MinKeywords, lower) THEN OpMin
    ELSE IF AnyIn(MaxKeywords, lower) THEN OpMax
    ELSE None

\* [A-Za-z_]
IdStartChars == Range(UpperLetters) \cup Range(LowerLetters) \cup {"_"}

\* \w on ASCII text
WordChars == IdStartChars \cup Digits

AllIn(s, lo, hi, chars) == \A k \in lo..hi : s[k] \in chars

\* The end of the longest run of characters of chars that starts at
\* position i of s (i - 1 when s[i] is not one): what a greedy \w* or \w+
\* consumes from i.
RECURSIVE RunEnd(_, _, _)
RunEnd(s, i, chars) ==
    IF i <= Len(s) /\ s[i] \in chars THEN RunEnd(s, i + 1, chars) ELSE i - 1

\* Mutant: the bracketed group must be an identifier too, [A-Za-z_]\w*.
RegexMatchAtIdentifierColumn(s, i) ==
    IF s[i] \notin IdStartChars THEN None
    ELSE LET e == RunEnd(s, i + 1, WordChars)
             f == RunEnd(s, e + 2, WordChars)
         IN IF /\ e + 1 <= Len(s) /\ s[e + 1] = "["
               /\ f >= e + 2
               /\ s[e + 2] \in IdStartChars
               /\ f + 1 <= Len(s) /\ s[f + 1] = "]"
            THEN <<i, e, f>>
            ELSE None

\* The match of ([A-Za-z_]\w*)\[(\w+)\] that starts at position i of s, or
\* None: <<i, e, f>> where group 1 is s[i..e], s[e+1] is "[", group 2 is
\* the non-empty s[e+2..f] and s[f+1] is "]". Each of \w* and \w+ takes its
\* longest run; giving characters back cannot help, since the character
\* after a shorter run is a word character and the pattern needs "[" or
\* "]" there.
RegexMatchAt(s, i) ==
    IF s[i] \notin IdStartChars THEN None
    ELSE LET e == RunEnd(s, i + 1, WordChars)
             f == RunEnd(s, e + 2, WordChars)
         IN IF /\ e + 1 <= Len(s) /\ s[e + 1] = "["
               /\ f >= e + 2
               /\ f + 1 <= Len(s) /\ s[f + 1] = "]"
            THEN <<i, e, f>>
            ELSE None

\* re.search(pattern, s): the match at the least start position that has
\* one; None when there is none.
RegexSearch(s) ==
    LET starts == {i \in DOMAIN s : RegexMatchAt(s, i) # None}
    IN IF starts = {} THEN None
       ELSE RegexMatchAt(s, CHOOSE x \in starts : \A y \in starts : x <= y)

\* Mutant: the pattern is searched in the lower-cased copy.
SearchSubjectLowered(input) == Lower(input)

\* line 146: the string the pattern is searched in
SearchSubject(input) == input

\* parse_measure_request(user_input), lines 131-153
parse_measure_request(input) ==
    LET lower == Lower(input)
        s == SearchSubject(input)
        match == RegexSearch(s)
    IN [operation |-> DetectOperation(lower),
        table |-> IF match # None THEN SubSeq(s, match[1], match[2]) ELSE None,
        column |-> IF match # None THEN SubSeq(s, match[2] + 2, match[3]) ELSE None,
        has_explicit_syntax |-> match # None]

-----------------------------------------------------------------------------
(* run_agent_once: the hints and the text sent to the agent, lines 1867-1890 *)

\* line 1875: "[Intent: "
IntentTagOpen == <<"[", "I", "n", "t", "e", "n", "t", ":", " ">>
\* line 1878: "[Operation: "
OperationTagOpen == <<"[", "O", "p", "e", "r", "a", "t", "i", "o", "n", ":", " ">>
\* line 1881: "[Explicit: "
ExplicitTagOpen == <<"[", "E", "x", "p", "l", "i", "c", "i", "t", ":", " ">>
\* line 1882
HighConfidenceTag ==
    <<"[", "H", "i", "g", "h", " ", "c", "o", "n", "f", "i", "d",
      "e", "n", "c", "e", " ", "-", " ", "e", "x", "e", "c", "u",
      "t", "e", " ", "d", "i", "r", "e", "c", "t", "l", "y", "]">>
\* line 1885
SearchTag ==
    <<"[", "S", "e", "a", "r", "c", "h", " ", "f", "o", "r", " ",
      "t", "a", "b", "l", "e", "/", "c", "o", "l", "u", "m", "n",
      " ", "n", "a", "m", "e", "s", " ", "b", "e", "f", "o", "r",
      "e", " ", "a", "s", "k", "i", "n", "g", " ", "u", "s", "e",
      "r", "]">>

\* " ".join(strs) for sep = " "
RECURSIVE Join(_, _)
Join(strs, sep) ==
    IF strs = <<>> THEN <<>>
    ELSE IF Len(strs) = 1 THEN strs[1]
    ELSE strs[1] \o sep \o Join(Tail(strs), sep)

\* Mutant: the search tag is appended whether or not explicit syntax was found.
BuildHintsSearchAlways(intent_, info_) ==
    (IF intent_ # IntentUnknown
     THEN << IntentTagOpen \o Upper(intent_) \o <<"]">> >> ELSE <<>>)
    \o (IF info_.operation # None
        THEN << OperationTagOpen \o info_.operation \o <<"]">> >> ELSE <<>>)
    \o (IF info_.has_explicit_syntax
        THEN << ExplicitTagOpen \o info_.table \o <<"[">> \o info_.column
                   \o <<"]", "]">>,
                HighConfidenceTag >>
        ELSE <<>>)
    \o << SearchTag >>

\* lines 1872-1885: hints
BuildHints(intent_, info_) ==
    (IF intent_ # IntentUnknown
     THEN << IntentTagOpen \o Upper(intent_) \o <<"]">> >> ELSE <<>>)
    \o (IF info_.operation # None
        THEN << OperationTagOpen \o info_.operation \o <<"]">> >> ELSE <<>>)
    \o (IF info_.has_explicit_syntax
        THEN << ExplicitTagOpen \o info_.table \o <<"[">> \o info_.column
                   \o <<"]", "]">>,
                HighConfidenceTag >>
        ELSE << SearchTag >>)

\* line 1888: enhanced = user_input + "\n" + " ".join(hints)
Enhance(input, hints_) == input \o <<"\n">> \o Join(hints_, <<" ">>)

-----------------------------------------------------------------------------
(* run_agent_once: the reply taken from the agent's result, lines 1901-1959 *)

\* The two pictographs of the fixed replies, U+274C and U+2713, each one
\* character of the Python str.
CrossMark == "(x)"
CheckMark == "(v)"

\* line 1907
NoResponse ==
    <<"N", "o", " ", "r", "e", "s", "p", "o", "n", "s", "e", " ", "r",
      "e", "c", "e", "i", "v", "e", "d", ".">>
\* lines 1939, 1942, 1944
OperationCompleted ==
    <<CheckMark, " ", "O", "p", "e", "r", "a", "t", "i", "o", "n", " ",
      "c", "o", "m", "p", "l", "e", "t", "e", "d", " ", "s", "u", "c",
      "c", "e", "s", "s", "f", "u", "l", "l", "y", ".">>
\* line 1952
NotFoundReply ==
    <<CrossMark, " ", "T", "a", "b", "l", "e", "/", "c", "o", "l", "u",
      "m", "n", " ", "n", "o", "t", " ", "f", "o", "u", "n", "d", ".",
      " ", "P", "l", "e", "a", "s", "e", " ", "v", "e", "r", "i", "f",
      "y", " ", "t", "h", "e", " ", "e", "x", "a", "c", "t", " ", "n",
      "a", "m", "e", " ", "i", "n", " ", "y", "o", "u", "r", " ", "P",
      "o", "w", "e", "r", " ", "B", "I", " ", "m", "o", "d", "e", "l",
      ".">>
\* line 1954
SyntaxReply ==
    <<CrossMark, " ", "D", "A", "X", " ", "s", "y", "n", "t", "a", "x",
      " ", "e", "r", "r", "o", "r", ".", " ", "P", "l", "e", "a", "s",
      "e", " ", "c", "h", "e", "c", "k", " ", "t", "h", "e", " ", "f",
      "o", "r", "m", "u", "l", "a", ".">>
\* line 1956
TooLongReply ==
    <<CrossMark, " ", "R", "e", "q", "u", "e", "s", "t", " ", "t", "o",
      "o", " ", "l", "o", "n", "g", ".", " ", "P", "l", "e", "a", "s",
      "e", " ", "s", "i", "m", "p", "l", "i", "f", "y", " ", "o", "r",
      " ", "b", "r", "e", "a", "k", " ", "i", "n", "t", "o", " ", "s",
      "m", "a", "l", "l", "e", "r", " ", "p", "a", "r", "t", "s", ".">>
\* line 1959
GenericReplyOpen ==
    <<CrossMark, " ", "E", "r", "r", "o", "r", ":", " ">>

\* lines 1951, 1953, 1955: the keywords looked for in the lower-cased error
NotFoundKeywords ==
    << <<"n", "o", "t", " ", "f", "o", "u", "n", "d">>,
       <<"d", "o", "e", "s", " ", "n", "o", "t", " ", "e", "x", "i", "s", "t">> >>
SyntaxKeywords == << <<"s", "y", "n", "t", "a", "x">> >>
TooLongKeywords ==
    << <<"c", "o", "n", "t", "e", "x", "t">>, <<"t", "o", "k", "e", "n">> >>

\* The characters str.strip() removes from both ends
Whitespace == {" ", "\t", "\n", "\r"}

RECURSIVE LStrip(_)
LStrip(s) ==
    IF s # <<>> /\ Head(s) \in Whitespace THEN LStrip(Tail(s)) ELSE s

RECURSIVE RStrip(_)
RStrip(s) ==
    IF s # <<>> /\ s[Len(s)] \in Whitespace
    THEN RStrip(SubSeq(s, 1, Len(s) - 1)) ELSE s

\* s.strip()
Strip(s) == RStrip(LStrip(s))

\* s.strip() is truthy
NonBlank(s) == Strip(s) # <<>>

\* The first position from which old occurs in s at or after position
\* from, or 0
FindFrom(s, old, from) ==
    LET occ == {i \in from..(Len(s) - Len(old) + 1) :
                   SubSeq(s, i, i + Len(old) - 1) = old}
    IN  IF occ = {} THEN 0 ELSE CHOOSE i \in occ : \A k \in occ : i <= k

RECURSIVE ReplaceFrom(_, _, _)
ReplaceFrom(s, old, from) ==
    LET i == FindFrom(s, old, from)
    IN  IF i = 0 THEN SubSeq(s, from, Len(s))
        ELSE SubSeq(s, from, i - 1) \o ReplaceFrom(s, old, i + Len(old))

\* Mutant: the blank that follows a removed tag is removed with it.
RECURSIVE ReplaceFromWithBlank(_, _, _)
ReplaceFromWithBlank(s, old, from) ==
    LET i == FindFrom(s, old, from)
        after == i + Len(old)
    IN  IF i = 0 THEN SubSeq(s, from, Len(s))
        ELSE SubSeq(s, from, i - 1)
             \o ReplaceFromWithBlank(s, old,
                    IF after <= Len(s) /\ s[after] = " " THEN after + 1
                    ELSE after)

ReplaceWithFollowingBlank(s, old) ==
    IF old = <<>> THEN s ELSE ReplaceFromWithBlank(s, old, 1)

\* s.replace(old, ""): one scan from the left that drops every occurrence
\* of old it meets and resumes after it (lines 1917, 1931)
Replace(s, old) == IF old = <<>> THEN s ELSE ReplaceFrom(s, old, 1)

\* lines 1915-1917 and 1930-1931: the values cleaned (result_text) takes,
\* the text itself first and then one value per hint
RECURSIVE RemoveHints(_, _)
RemoveHints(text, hints_) ==
    IF hints_ = <<>> THEN <<text>>
    ELSE <<text>> \o RemoveHints(Replace(text, Head(hints_)), Tail(hints_))

\* A message is [type |-> the class name, content |-> c]; its content is a
\* str, [kind |-> "str", value |-> characters], or a list,
\* [kind |-> "list", value |-> items]. An item of a list is a dict with a
\* 'text' key, [kind |-> "text_dict", text |-> t], a str,
\* [kind |-> "str", text |-> t], or a dict without the key,
\* [kind |-> "dict", text |-> str(item)].
StrContent(s) == [kind |-> "str", value |-> s]
ListContent(items) == [kind |-> "list", value |-> items]
TextDict(t) == [kind |-> "text_dict", text |-> t]
StrItem(t) == [kind |-> "str", text |-> t]
EmptyDict == [kind |-> "dict", text |-> <<"{", "}">>]

\* line 1910
AssistantTypes == {"AIMessage", "AssistantMessage"}

IsTextItem(item) == item.kind \in {"text_dict", "str"}

RECURSIVE MapText(_)
MapText(items) ==
    IF items = <<>> THEN <<>> ELSE <<Head(items).text>> \o MapText(Tail(items))

\* lines 1921-1926: texts
Texts(items) == MapText(SelectSeq(items, IsTextItem))

\* line 1929: '\n'.join(t for t in texts if t.strip())
JoinTexts(texts) == Join(SelectSeq(texts, NonBlank), <<"\n">>)

\* lines 1909-1932: the scan of reversed(all_messages) from message i down.
\* The result is the values of cleaned for the message the scan returns
\* from, or <<>> when the loop ends without returning.
RECURSIVE ScanMessages(_, _, _)
ScanMessages(msgs, i, hints_) ==
    IF i = 0 THEN <<>>
    ELSE LET msg == msgs[i]
             isAssistant == msg.type \in AssistantTypes
         IN  IF isAssistant /\ msg.content.kind = "str"
                /\ NonBlank(msg.content.value)
             THEN RemoveHints(msg.content.value, hints_)
             ELSE IF isAssistant /\ msg.content.kind = "list"
                     /\ Texts(msg.content.value) # <<>>
             THEN RemoveHints(JoinTexts(Texts(msg.content.value)), hints_)
             ELSE ScanMessages(msgs, i - 1, hints_)

\* lines 1934-1944: the fallback to all_messages[-1]; line 1941 joins
\* str(item.get('text', item)) or str(item) of every item with blanks
Fallback(msgs) ==
    LET content == msgs[Len(msgs)].content
        text == IF content.kind = "str" THEN content.value
                ELSE Join(MapText(content.value), <<" ">>)
    IN  IF NonBlank(text) THEN text ELSE OperationCompleted

\* lines 1904-1944: what run_agent_once does with the result of ainvoke
ExtractReply(msgs, hints_) ==
    IF msgs = <<>> THEN [cleaned |-> <<>>, response |-> NoResponse]
    ELSE LET trace == ScanMessages(msgs, Len(msgs), hints_)
         IN  IF trace # <<>>
             THEN [cleaned |-> trace, response |-> Strip(trace[Len(trace)])]
             ELSE [cleaned |-> <<>>, response |-> Fallback(msgs)]

\* Mutant: the too-long category is tested before the syntax category.
ErrorReplyTooLongFirst(e) ==
    LET lowered == Lower(e)
    IN  IF AnyIn(NotFoundKeywords, lowered) THEN NotFoundReply
        ELSE IF AnyIn(TooLongKeywords, lowered) THEN TooLongReply
        ELSE IF AnyIn(SyntaxKeywords, lowered) THEN SyntaxReply
        ELSE GenericReplyOpen \o e

\* lines 1946-1959: the reply for an exception whose str(e) is e
ErrorReply(e) ==
    LET lowered == Lower(e)
    IN  IF AnyIn(NotFoundKeywords, lowered) THEN NotFoundReply
        ELSE IF AnyIn(SyntaxKeywords, lowered) THEN SyntaxReply
        ELSE IF AnyIn(TooLongKeywords, lowered) THEN TooLongReply
        ELSE GenericReplyOpen \o e

-----------------------------------------------------------------------------
(* search_tables_and_columns, lines 59-109 *)

\* line 80: the keywords looked for in the lower-cased name of a tool
ListToolKeywords ==
    << <<"l", "i", "s", "t">>,
       <<"g", "e", "t">>,
       <<"s", "c", "h", "e", "m", "a">>,
       <<"t", "a", "b", "l", "e", "s">>,
       <<"d", "e", "s", "c", "r", "i", "b", "e">> >>

\* line 87: the empty dict the selected tool is invoked with
NoArguments == <<>>

\* One invocation of a tool
Invocation(name, args) == [name |-> name, args |-> args]

\* Mutant: the last tool whose name contains a keyword is selected.
SelectLastListTool(names) ==
    LET found == {i \in DOMAIN names : AnyIn(ListToolKeywords, Lower(names[i]))}
    IN  IF found = {} THEN 0 ELSE CHOOSE i \in found : \A k \in found : i >= k

\* lines 77-82: the index of the first tool whose lower-cased name contains
\* a keyword, or 0 when list_tool stays None
SelectListTool(names) ==
    LET found == {i \in DOMAIN names : AnyIn(ListToolKeywords, Lower(names[i]))}
    IN  IF found = {} THEN 0 ELSE CHOOSE i \in found : \A k \in found : i <= k

\* The value under a key of the tool's result: a list of names,
\* [kind |-> "names", value |-> the names], a list of dicts (one dict per
\* table or column), [kind |-> "dicts", value |-> their str()], or no such
\* key, [kind |-> "absent", value |-> <<>>].
Names(ns) == [kind |-> "names", value |-> ns]
Dicts(ds) == [kind |-> "dicts", value |-> ds]
Absent == [kind |-> "absent", value |-> <<>>]

\* The result of the invocation: an exception, a text (not a dict), or a
\* dict with or without the keys 'tables' and 'columns'
RaisedResult == [kind |-> "raise", tables |-> Absent, columns |-> Absent]
TextResult == [kind |-> "text", tables |-> Absent, columns |-> Absent]
DictResult(t, c) == [kind |-> "dict", tables |-> t, columns |-> c]
NotInvoked == [kind |-> "none", tables |-> Absent, columns |-> Absent]

\* lines 90-94: the value result[key] has after the fetch
Fetched(schema, value) ==
    IF schema.kind = "dict" /\ value.kind # "absent" THEN value
    ELSE Names(<<>>)

\* A query is truthy when it is neither None nor ''; a fetched list is
\* truthy when it is not empty (lines 100, 103)
Truthy(q) == q # None /\ q # <<>>
NonEmptyList(v) == v.value # <<>>

\* fuzzy_match raises AttributeError at option.lower() (line 40) when an
\* option is a dict
FuzzyMatchRaises(v) == v.kind = "dicts" /\ v.value # <<>>

\* lines 99-107: the two match lists; an exception in fuzzy_match leaves
\* the try block, so what comes after it is not run
MatchBoth(tq, cq, tables_, columns_) ==
    LET matchTables == Truthy(tq) /\ NonEmptyList(tables_)
        matchColumns == Truthy(cq) /\ NonEmptyList(columns_)
    IN  IF matchTables /\ FuzzyMatchRaises(tables_)
        THEN [table_matches |-> <<>>, column_matches |-> <<>>]
        ELSE [table_matches |->
                  IF matchTables
                  THEN fuzzy_match(tq, tables_.value, DefaultThreshold)
                  ELSE <<>>,
              column_matches |->
                  IF matchColumns /\ ~FuzzyMatchRaises(columns_)
                  THEN fuzzy_match(cq, columns_.value, DefaultThreshold)
                  ELSE <<>>]

\* line 65: the dict the call starts from
EmptyResult ==
    [tables |-> Names(<<>>), columns |-> Names(<<>>),
     table_matches |-> <<>>, column_matches |-> <<>>]

\* Mutant: a failure of the tool discovery leaves the call as an exception.
search_tables_and_columns_unguarded(discovery, schema, tq, cq) ==
    IF discovery.kind = "raise"
    THEN [raised |-> TRUE, result |-> EmptyResult]
    ELSE LET tables_ == Fetched(schema, schema.tables)
             columns_ == Fetched(schema, schema.columns)
             both == MatchBoth(tq, cq, tables_, columns_)
         IN  [raised |-> FALSE,
              result |-> [tables |-> tables_, columns |-> columns_,
                          table_matches |-> both.table_matches,
                          column_matches |-> both.column_matches]]

\* lines 59-109: the call, given what load_mcp_tools gave (discovery) and
\* what the invocation of the selected tool gave (schema; NotInvoked when
\* no tool was invoked). An exception of load_mcp_tools is caught at line
\* 106, one of the invocation at line 96, one of fuzzy_match at line 106.
search_tables_and_columns(discovery, schema, tq, cq) ==
    IF discovery.kind = "raise"
    THEN [raised |-> FALSE, result |-> EmptyResult]
    ELSE LET tables_ == Fetched(schema, schema.tables)
             columns_ == Fetched(schema, schema.columns)
             both == MatchBoth(tq, cq, tables_, columns_)
         IN  [raised |-> FALSE,
              result |-> [tables |-> tables_, columns |-> columns_,
                          table_matches |-> both.table_matches,
                          column_matches |-> both.column_matches]]

-----------------------------------------------------------------------------
(* The chat API and the websocket endpoint, lines 1744-1859 *)

\* lines 1810, 1839: the length a title is cut to
TitleLimit == 50

\* line 1753
NewChatTitle == <<"N", "e", "w", " ", "C", "h", "a", "t">>
\* lines 1765, 1773
ChatNotFound == <<"C", "h", "a", "t", " ", "n", "o", "t", " ", "f", "o", "u", "n", "d">>
\* line 1784
NotInitializedOpen ==
    <<"A", "g", "e", "n", "t", " ", "n", "o", "t", " ", "i", "n", "i", "t",
      "i", "a", "l", "i", "z", "e", "d", ".", " ", "E", "r", "r", "o", "r",
      ":", " ">>
UnknownError == <<"U", "n", "k", "n", "o", "w", "n", " ", "e", "r", "r", "o", "r">>

Min(a, b) == IF a <= b THEN a ELSE b

\* lines 1810 and 1839: user_input[:50] + ('...' if len(user_input) > 50
\* else '')
TitleOf(input) ==
    SubSeq(input, 1, Min(TitleLimit, Len(input)))
    \o (IF Len(input) > TitleLimit THEN <<".", ".", ".">> ELSE <<>>)

\* A session of the store, without its id (the key it is stored under) and
\* its creation time
Session(title, messages) == [title |-> title, messages |-> messages]
UserMessage(content) == [role |-> "user", content |-> content]
AssistantMessage(content) == [role |-> "assistant", content |-> content]

\* A frame sent to the client
Frame(type, content) == [type |-> type, content |-> content]

\* chat_sessions[sid] = session
Put(sessions, sid, session) ==
    [s \in DOMAIN sessions \cup {sid} |->
        IF s = sid THEN session ELSE sessions[s]]

\* del chat_sessions[sid]
Delete(sessions, sid) == [s \in DOMAIN sessions \ {sid} |-> sessions[s]]

\* Mutant: the message is put at the front of the transcript.
AppendMessageFront(sessions, sid, message) ==
    [sessions EXCEPT ![sid].messages = <<message>> \o @]

\* chat_sessions[sid]['messages'].append(message)
AppendMessage(sessions, sid, message) ==
    [sessions EXCEPT ![sid].messages = Append(@, message)]

\* str(KeyError(sid)), the text of the exception of line 1832 when the
\* session is not in the store
KeyErrorText(sid) == <<"'">> \o sid \o <<"'">>

\* What a call of the chat API returns
IdResponse(sid) == [kind |-> "id", id |-> sid, session |-> Session(<<>>, <<>>)]
SessionResponse(sid, session) == [kind |-> "session", id |-> sid, session |-> session]
ErrorResponse == [kind |-> "error", id |-> ChatNotFound, session |-> Session(<<>>, <<>>)]
SuccessResponse == [kind |-> "success", id |-> <<>>, session |-> Session(<<>>, <<>>)]

-----------------------------------------------------------------------------
(* The fuzzy_match specification: every query and threshold of the sets    *)
(* below against every list of at most MaxOptions candidates.              *)

MaxOptions == 3

\* Candidate names and queries: the spec's Sale/Sales example, the empty
\* string, near misses above, at and below the default threshold.
Words ==
    { <<>>,
      <<"s", "a", "l", "e">>,
      <<"S", "a", "l", "e">>,
      <<"S", "a", "l", "e", "s">>,
      <<"s", "o", "l", "e">>,
      <<"s", "a", "l", "t">>,
      <<"S", "a", "l", "t", "y">>,
      <<"s", "k", "y">> }

\* The default threshold 0.6 and a stricter caller-supplied one, 0.75.
Thresholds == {DefaultThreshold, <<3, 4>>}

OptionLists == UNION {[1..n -> Words] : n \in 0..MaxOptions}

nlIdle ==
    /\ user_input = <<>>
    /\ intent = None
    /\ info = None
    /\ hints = None
    /\ enhanced = None

InitFuzzy ==
    /\ pc = "init"
    /\ query \in Words
    /\ options \in OptionLists
    /\ threshold \in Thresholds
    /\ matches = None
    /\ nlIdle
    /\ restIdle

\* A call fuzzy_match(query, options, threshold); lines 27-56.
FuzzyMatch ==
    /\ pc = "init"
    /\ matches' = fuzzy_match(query, options, threshold)
    /\ pc' = "fuzzy_match"
    /\ UNCHANGED <<query, options, threshold>>
    /\ UNCHANGED nlVars
    /\ UNCHANGED restVars

NextFuzzy == FuzzyMatch

SpecFuzzy == InitFuzzy /\ [][NextFuzzy]_vars

-----------------------------------------------------------------------------
(* The specification of the utterance functions: detect_user_intent,       *)
(* parse_measure_request and the start of run_agent_once, each applied to  *)
(* every utterance made of at most MaxTokens tokens and to the examples.   *)

MaxTokens == 3

\* One keyword of each intent set and of each operation group (one with an
\* upper-case letter), a table name, two bracketed columns, a digit and a
\* space.
Tokens ==
    { <<"g", "e", "t">>,
      <<"a", "d", "d">>,
      <<"e", "d", "i", "t">>,
      <<"d", "r", "o", "p">>,
      <<"S", "u", "m">>,
      <<"a", "v", "g">>,
      <<"c", "o", "u", "n", "t">>,
      <<"u", "n", "i", "q", "u", "e">>,
      <<"m", "i", "n">>,
      <<"m", "a", "x">>,
      <<"S", "a", "l", "e", "s">>,
      <<"[", "A", "m", "t", "]">>,
      <<"[", "2", "0", "1", "3", "]">>,
      <<"9">>,
      <<" ">> }

\* The utterances of the specification's examples, a digits-only column
\* as typed by a user, and two utterances with two Table[Column] patterns.
Examples ==
    { <<"s", "h", "o", "w", " ", "t", "o", "t", "a", "l", " ", "s", "a", "l", "e", "s">>,
      <<"c", "r", "e", "a", "t", "e", " ", "a", " ", "m", "e", "a", "s", "u", "r", "e", " ", "f", "o", "r", " ", "p", "r", "o", "f", "i", "t">>,
      <<"x", "y", "z">>,
      <<"t", "o", "t", "a", "l", " ", "s", "a", "l", "e", "s">>,
      <<"s", "h", "o", "w", " ", "S", "a", "l", "e", "s", "[", "A", "m", "o", "u", "n", "t", "]">>,
      <<"a", "v", "e", "r", "a", "g", "e", " ", "S", "a", "l", "e", "s", "[", "A", "m", "o", "u", "n", "t", "]">>,
      <<"s", "h", "o", "w", " ", "Y", "o", "Y", " ", "g", "r", "o", "w", "t", "h", " ", "f", "r", "o", "m", " ", "2", "0", "1", "3", " ", "t", "o", " ", "2", "0", "1", "4">>,
      <<"S", "a", "l", "e", "s", "[", "2", "0", "1", "3", "]">>,
      <<"a", "d", "d", " ", "S", "a", "l", "e", "s", "[", "A", "m", "t", "]", " ", "t", "o", " ", "C", "o", "s", "t", "[", "Q", "t", "y", "]">>,
      <<"x", "[", " ", "T", "a", "b", "_", "1", "[", "c", "2", "]", " ", "y", "[", "z", "]">> }

RECURSIVE Flatten(_)
Flatten(ts) == IF ts = <<>> THEN <<>> ELSE Head(ts) \o Flatten(Tail(ts))

Utterances ==
    {Flatten(ts) : ts \in UNION {[1..n -> Tokens] : n \in 0..MaxTokens}}
    \cup Examples

fuzzyIdle ==
    /\ query = <<>>
    /\ options = <<>>
    /\ threshold = DefaultThreshold
    /\ matches = None

InitUtterance ==
    /\ pc = "init"
    /\ user_input \in Utterances
    /\ intent = None
    /\ info = None
    /\ hints = None
    /\ enhanced = None
    /\ fuzzyIdle
    /\ restIdle

\* A call detect_user_intent(user_input); lines 112-128.
DetectUserIntent ==
    /\ pc = "init"
    /\ intent' = detect_user_intent(user_input)
    /\ pc' = "detect_user_intent"
    /\ UNCHANGED <<user_input, info, hints, enhanced>>
    /\ UNCHANGED fuzzyVars
    /\ UNCHANGED restVars

\* A call parse_measure_request(user_input); lines 131-153.
ParseMeasureRequest ==
    /\ pc = "init"
    /\ info' = parse_measure_request(user_input)
    /\ pc' = "parse_measure_request"
    /\ UNCHANGED <<user_input, intent, hints, enhanced>>
    /\ UNCHANGED fuzzyVars
    /\ UNCHANGED restVars

\* A call run_agent_once(agent, user_input, thread_id) up to its await of
\* agent.ainvoke: lines 1867-1899. The enhanced text is what the agent is
\* given.
RunAgentOnceInvoke ==
    /\ pc = "init"
    /\ intent' = detect_user_intent(user_input)
    /\ info' = parse_measure_request(user_input)
    /\ hints' = BuildHints(intent', info')
    /\ enhanced' = Enhance(user_input, hints')
    /\ pc' = "ainvoke"
    /\ UNCHANGED user_input
    /\ UNCHANGED fuzzyVars
    /\ UNCHANGED restVars

NextUtterance ==
    \/ DetectUserIntent
    \/ ParseMeasureRequest
    \/ RunAgentOnceInvoke

SpecUtterance == InitUtterance /\ [][NextUtterance]_vars

-----------------------------------------------------------------------------
(* The specification of run_agent_once as a whole: the utterances below,   *)
(* each answered by the agent with every list of at most MaxMessages       *)
(* messages of the set Messages, or with an exception of the set Errors.   *)

MaxMessages == 2

\* Utterances with one hint (the search tag), with two (intent and search)
\* and with three (operation, explicit reference, high confidence)
AgentUtterances ==
    { <<"s", "k", "y">>,
      <<"g", "e", "t">>,
      <<"S", "u", "m", " ", "S", "a", "l", "e", "s", "[", "A", "m", "t", "]">> }

\* "[Intent: SHOW]", the tag of the second utterance
ShowTag == IntentTagOpen \o Upper(IntentShow) \o <<"]">>

\* A hint tag cut in two, to write texts in which a tag is wrapped around
\* another text
Front(tag) == SubSeq(tag, 1, 8)
Back(tag) == SubSeq(tag, 9, Len(tag))

\* The texts an assistant message carries: empty, blank, plain, padded with
\* white space, with a tag, with a tag twice, and with one tag wrapped
\* around another
AssistantTexts ==
    { <<>>,
      <<" ">>,
      <<"o", "k">>,
      <<" ", "o", "k", "\n">>,
      <<"o", "k", " ">> \o SearchTag,
      ShowTag \o <<" ", "o", "k", " ">> \o SearchTag \o <<"!">>,
      SearchTag \o <<"a">> \o SearchTag,
      Front(SearchTag) \o SearchTag \o Back(SearchTag),
      Front(SearchTag) \o ShowTag \o Back(SearchTag),
      Front(ShowTag) \o SearchTag \o Back(ShowTag) }

\* The lists an assistant message carries: no item, no text item, blank
\* text items only, and text items mixed with others
AssistantLists ==
    { <<>>,
      <<EmptyDict>>,
      <<TextDict(<<" ">>)>>,
      <<StrItem(<<>>), EmptyDict>>,
      <<TextDict(<<"o", "k">>), EmptyDict, StrItem(<<" ">>),
        StrItem(<<"f", "i", "n", "e">>)>>,
      <<TextDict(<<"o", "k", " ">> \o SearchTag), StrItem(<<"\n">>)>> }

AssistantMessages ==
    {[type |-> "AIMessage", content |-> StrContent(t)] : t \in AssistantTexts}
    \cup {[type |-> "AIMessage", content |-> ListContent(l)] :
             l \in AssistantLists}
    \cup {[type |-> "AssistantMessage",
           content |-> StrContent(<<"o", "k">>)]}

\* The other messages of a result: the request as it was sent (line 1890)
\* and tool messages with a text, a blank text or a list
OtherMessages(enhanced_) ==
    {[type |-> "HumanMessage", content |-> StrContent(enhanced_)]}
    \cup {[type |-> "ToolMessage", content |-> c] :
             c \in {StrContent(<<>>),
                    StrContent(<<" ", "3", " ", "r", "o", "w", "s">>),
                    ListContent(<<EmptyDict, TextDict(<<"3">>)>>),
                    ListContent(<<StrItem(<<" ">>)>>),
                    ListContent(<<>>)}}

Messages(enhanced_) == AssistantMessages \cup OtherMessages(enhanced_)

MessageLists(enhanced_) ==
    UNION {[1..n -> Messages(enhanced_)] : n \in 0..MaxMessages}

\* str(e) of the exceptions ainvoke raises
Errors ==
    { <<"T", "a", "b", "l", "e", " ", "'", "S", "a", "l", "e", "'", " ", "n", "o", "t", " ", "f", "o", "u", "n", "d">>,
      <<"C", "o", "l", "u", "m", "n", " ", "A", "m", "t", " ", "d", "o", "e", "s", " ", "n", "o", "t", " ", "e", "x", "i", "s", "t">>,
      <<"S", "y", "n", "t", "a", "x", " ", "e", "r", "r", "o", "r", " ", "n", "e", "a", "r", " ", "'", ")", "'">>,
      <<"c", "o", "n", "t", "e", "x", "t", " ", "l", "e", "n", "g", "t", "h", " ", "e", "x", "c", "e", "e", "d", "e", "d">>,
      <<"I", "n", "v", "a", "l", "i", "d", " ", "T", "O", "K", "E", "N">>,
      <<"N", "o", "t", " ", "F", "o", "u", "n", "d", ":", " ", "b", "a", "d", " ", "s", "y", "n", "t", "a", "x">>,
      <<"s", "y", "n", "t", "a", "x", " ", "e", "r", "r", "o", "r", " ", "i", "n", " ", "c", "o", "n", "t", "e", "x", "t">>,
      <<"C", "o", "n", "n", "e", "c", "t", "i", "o", "n", " ", "r", "e", "f", "u", "s", "e", "d">>,
      <<>> }

InitAgent ==
    /\ pc = "init"
    /\ user_input \in AgentUtterances
    /\ intent = None
    /\ info = None
    /\ hints = None
    /\ enhanced = None
    /\ fuzzyIdle
    /\ restIdle

\* run_agent_once from the return of agent.ainvoke to its own return:
\* lines 1901-1944.
RunAgentOnceReturn ==
    /\ pc = "ainvoke"
    /\ \E msgs \in MessageLists(enhanced) :
          /\ all_messages' = msgs
          /\ \E r \in {ExtractReply(msgs, hints)} :
                /\ cleaned' = r.cleaned
                /\ response' = r.response
    /\ pc' = "return"
    /\ UNCHANGED error
    /\ UNCHANGED nlVars
    /\ UNCHANGED <<fuzzyVars, searchVars, wsVars>>

\* run_agent_once when agent.ainvoke raises: lines 1946-1959.
RunAgentOnceExcept ==
    /\ pc = "ainvoke"
    /\ \E e \in Errors :
          /\ error' = e
          /\ response' = ErrorReply(e)
    /\ pc' = "except"
    /\ UNCHANGED <<all_messages, cleaned>>
    /\ UNCHANGED nlVars
    /\ UNCHANGED <<fuzzyVars, searchVars, wsVars>>

NextAgent ==
    \/ RunAgentOnceInvoke
    \/ RunAgentOnceReturn
    \/ RunAgentOnceExcept

SpecAgent == InitAgent /\ [][NextAgent]_vars

-----------------------------------------------------------------------------
(* The specification of search_tables_and_columns: every pair of queries   *)
(* below, every list of at most MaxTools tools, and every outcome of the   *)
(* tool discovery and of the invocation.                                   *)

MaxTools == 2

\* No query, the empty query and a name
TableQueries == {None, <<>>, <<"s", "a", "l", "e">>}
ColumnQueries == {None, <<>>, <<"s", "a", "l", "t">>}

ToolNames ==
    { <<"r", "u", "n", "_", "d", "a", "x">>,
      <<"L", "i", "s", "t", "_", "T", "a", "b", "l", "e", "s">>,
      <<"g", "e", "t", "S", "c", "h", "e", "m", "a">>,
      <<"d", "e", "s", "c", "r", "i", "b", "e", "_", "m", "o", "d", "e", "l">> }

\* What load_mcp_tools gives: an exception or a list of tools
DiscoveryRaised == [kind |-> "raise", names |-> <<>>]
Discoveries ==
    {DiscoveryRaised}
    \cup {[kind |-> "tools", names |-> ns] :
             ns \in UNION {[1..n -> ToolNames] : n \in 0..MaxTools}}

TableValues ==
    {Absent, Names(<<>>),
     Names(<< <<"S", "a", "l", "e", "s">>, <<"s", "o", "l", "e">> >>),
     Dicts(<< <<"{", "'", "n", "a", "m", "e", "'", ":", " ", "'", "S", "a", "l", "e", "s", "'", "}">> >>)}

ColumnValues ==
    {Absent, Names(<<>>),
     Names(<< <<"S", "a", "l", "t", "y">>, <<"s", "k", "y">> >>),
     Dicts(<< <<"{", "'", "n", "a", "m", "e", "'", ":", " ", "'", "A", "m", "t", "'", "}">> >>)}

SchemaResults ==
    {RaisedResult, TextResult}
    \cup {DictResult(t, c) : t \in TableValues, c \in ColumnValues}

InitSearch ==
    /\ pc = "init"
    /\ table_query \in TableQueries
    /\ column_query \in ColumnQueries
    /\ tools = None
    /\ invoked = <<>>
    /\ schema_result = None
    /\ result = None
    /\ raised = FALSE
    /\ fuzzyIdle
    /\ nlIdle
    /\ agentIdle
    /\ wsIdle

\* A call search_tables_and_columns(mcp_session, table_query, column_query);
\* lines 59-109. The selected tool, if any, is invoked once (line 87).
SearchTablesAndColumns ==
    /\ pc = "init"
    /\ \E discovery \in Discoveries :
          \E tool \in {SelectListTool(discovery.names)} :
             \E schema \in (IF tool = 0 THEN {NotInvoked} ELSE SchemaResults) :
                \E r \in {search_tables_and_columns(discovery, schema,
                                                    table_query, column_query)} :
                   /\ tools' = discovery
                   /\ invoked' = IF tool = 0 THEN <<>>
                                 ELSE <<Invocation(discovery.names[tool],
                                                   NoArguments)>>
                   /\ schema_result' = schema
                   /\ result' = r.result
                   /\ raised' = r.raised
    /\ pc' = "search_tables_and_columns"
    /\ UNCHANGED <<table_query, column_query>>
    /\ UNCHANGED <<fuzzyVars, nlVars, agentVars, wsVars>>

NextSearch == SearchTablesAndColumns

SpecSearch == InitSearch /\ [][NextSearch]_vars

-----------------------------------------------------------------------------
(* The specification of the server: the connections of Conns and the calls *)
(* of the chat API, interleaved in every order, until MaxFrames frames     *)
(* were received and MaxCalls calls were made.                             *)

MaxFrames == 4
MaxCalls == 1

Conns == {"a", "b"}

SessionIds == {<<"s", "1">>, <<"s", "2">>}

\* A message longer than the title limit (51 characters)
LongInput ==
    <<"s", "h", "o", "w", " ", "t", "h", "e", " ", "t", "o", "t", "a", "l",
      " ", "s", "a", "l", "e", "s", " ", "b", "y", " ", "r", "e", "g", "i",
      "o", "n", " ", "f", "o", "r", " ", "t", "h", "e", " ", "f", "i", "s",
      "c", "a", "l", " ", "y", "e", "a", "r", ".">>

\* The content of a message frame: blank, short with white space around it,
\* and long
Contents == {<<" ">>, <<" ", "h", "i">>, LongInput}

\* What run_agent_once returns for a message: the long message exceeds the
\* context of the agent and is answered with the mapped error (line 1956),
\* the short one with a text of the agent
AgentReplies(input) ==
    IF input = LongInput THEN {TooLongReply} ELSE {<<"o", "k">>}

\* str(e) of the exception that made the initialisation fail
InitializationErrors == {<<>>, <<"n", "o", " ", "k", "e", "y">>}

Closed == [pc |-> "idle", current_session_id |-> None, user_input |-> None,
           sent |-> <<>>, accepted |-> 0, agent_calls |-> 0,
           wrote |-> {}, deleted_during |-> FALSE]

\* The state after lifespan ran: the agent was created (lines 1647-1657) or
\* the initialisation failed (lines 1675-1677); no session, no connection.
InitServer ==
    /\ pc = "serve"
    /\ agent_initialized \in BOOLEAN
    /\ IF agent_initialized THEN initialization_error = None
       ELSE initialization_error \in InitializationErrors
    /\ chat_sessions = <<>>
    /\ connections = [c \in Conns |-> Closed]
    /\ http_response = None
    /\ frames = 0
    /\ calls = 0
    /\ deleted_ids = {}
    /\ fuzzyIdle
    /\ nlIdle
    /\ agentIdle
    /\ searchIdle

serverRest == <<pc, fuzzyVars, nlVars, agentVars, searchVars>>

\* A session id uuid4 can give: one that is not in the store and that no
\* connection has been given
Fresh(sid) ==
    /\ sid \notin DOMAIN chat_sessions
    /\ \A c \in Conns : connections[c].current_session_id # sid

\* POST /api/chats/new: create_new_chat, lines 1744-1758.
CreateNewChat ==
    /\ calls < MaxCalls
    /\ \E sid \in SessionIds :
          /\ Fresh(sid)
          /\ chat_sessions' = Put(chat_sessions, sid, Session(NewChatTitle, <<>>))
          /\ http_response' = IdResponse(sid)
    /\ calls' = calls + 1
    /\ UNCHANGED <<agent_initialized, initialization_error, deleted_ids, connections, frames>>
    /\ UNCHANGED serverRest

\* GET /api/chats/{session_id}: get_chat, lines 1760-1765.
GetChat(sid) ==
    /\ calls < MaxCalls
    /\ http_response' = IF sid \in DOMAIN chat_sessions
                        THEN SessionResponse(sid, chat_sessions[sid])
                        ELSE ErrorResponse
    /\ calls' = calls + 1
    /\ UNCHANGED <<agent_initialized, initialization_error, deleted_ids, chat_sessions,
                   connections, frames>>
    /\ UNCHANGED serverRest

\* The connections after session sid was deleted: those that wait for the
\* agent with a message of that session are marked.
DeletedDuring(sid) ==
    [c \in Conns |->
        IF connections[c].pc = "agent" /\ connections[c].current_session_id = sid
        THEN [connections[c] EXCEPT !.deleted_during = TRUE]
        ELSE connections[c]]

\* Mutant: deleting a session empties its transcript and keeps the session.
DeleteChatMessages(sid) ==
    /\ calls < MaxCalls
    /\ IF sid \in DOMAIN chat_sessions
       THEN /\ chat_sessions' = [chat_sessions EXCEPT ![sid].messages = <<>>]
            /\ http_response' = SuccessResponse
            /\ deleted_ids' = deleted_ids \cup {sid}
            /\ connections' = DeletedDuring(sid)
       ELSE /\ http_response' = ErrorResponse
            /\ UNCHANGED <<chat_sessions, deleted_ids, connections>>
    /\ calls' = calls + 1
    /\ UNCHANGED <<agent_initialized, initialization_error, frames>>
    /\ UNCHANGED serverRest

\* Mutant: deleting a session empties the store.
DeleteChatAll(sid) ==
    /\ calls < MaxCalls
    /\ IF sid \in DOMAIN chat_sessions
       THEN /\ chat_sessions' = <<>>
            /\ http_response' = SuccessResponse
            /\ deleted_ids' = deleted_ids \cup {sid}
            /\ connections' = DeletedDuring(sid)
       ELSE /\ http_response' = ErrorResponse
            /\ UNCHANGED <<chat_sessions, deleted_ids, connections>>
    /\ calls' = calls + 1
    /\ UNCHANGED <<agent_initialized, initialization_error, frames>>
    /\ UNCHANGED serverRest

\* DELETE /api/chats/{session_id}: delete_chat, lines 1767-1773.
DeleteChat(sid) ==
    /\ calls < MaxCalls
    /\ IF sid \in DOMAIN chat_sessions
       THEN /\ chat_sessions' = Delete(chat_sessions, sid)
            /\ http_response' = SuccessResponse
            /\ deleted_ids' = deleted_ids \cup {sid}
            /\ connections' = DeletedDuring(sid)
       ELSE /\ http_response' = ErrorResponse
            /\ UNCHANGED <<chat_sessions, deleted_ids, connections>>
    /\ calls' = calls + 1
    /\ UNCHANGED <<agent_initialized, initialization_error, frames>>
    /\ UNCHANGED serverRest

\* Mutant: the connection is served although the agent is not initialised.
WebsocketAcceptUnchecked(c) ==
    /\ connections[c].pc = "idle"
    /\ connections' = [connections EXCEPT ![c].pc = "receive"]
    /\ UNCHANGED <<agent_initialized, initialization_error, deleted_ids, chat_sessions,
                   http_response, frames, calls>>
    /\ UNCHANGED serverRest

\* websocket_endpoint from the accept to the first receive_json: lines
\* 1777-1794. Without an agent the error frame is sent and the connection
\* closed.
WebsocketAccept(c) ==
    /\ connections[c].pc = "idle"
    /\ IF ~agent_initialized
       THEN connections' =
               [connections EXCEPT
                   ![c].sent = Append(@, Frame("error",
                       NotInitializedOpen
                       \o (IF initialization_error = None
                              \/ initialization_error = <<>>
                           THEN UnknownError ELSE initialization_error))),
                   ![c].pc = "closed"]
       ELSE connections' = [connections EXCEPT ![c].pc = "receive"]
    /\ UNCHANGED <<agent_initialized, initialization_error, deleted_ids, chat_sessions,
                   http_response, frames, calls>>
    /\ UNCHANGED serverRest

\* Mutant: a set_session frame is taken while the agent is still working
\* on the previous message of the connection.
ReceiveSetSessionPipelined(c, sid) ==
    /\ connections[c].pc \in {"receive", "agent"}
    /\ frames < MaxFrames
    /\ connections' = [connections EXCEPT ![c].current_session_id = sid]
    /\ frames' = frames + 1
    /\ UNCHANGED <<agent_initialized, initialization_error, deleted_ids, chat_sessions,
                   http_response, calls>>
    /\ UNCHANGED serverRest

\* A frame {"type": "set_session", "session_id": sid}, or one without
\* session_id (sid = None): lines 1794-1797.
ReceiveSetSession(c, sid) ==
    /\ connections[c].pc = "receive"
    /\ frames < MaxFrames
    /\ connections' = [connections EXCEPT ![c].current_session_id = sid]
    /\ frames' = frames + 1
    /\ UNCHANGED <<agent_initialized, initialization_error, deleted_ids, chat_sessions,
                   http_response, calls>>
    /\ UNCHANGED serverRest

\* Mutant: a message is handled although no session was set, under the id
\* None.
ReceiveMessageWithoutSession(c, content) ==
    /\ connections[c].pc = "receive"
    /\ frames < MaxFrames
    /\ \E input \in {Strip(content)} : \E sid \in {connections[c].current_session_id} :
          IF input = <<>>
          THEN UNCHANGED <<chat_sessions, connections>>
          ELSE /\ chat_sessions' =
                      AppendMessage(
                          IF sid \notin DOMAIN chat_sessions
                          THEN Put(chat_sessions, sid, Session(TitleOf(input), <<>>))
                          ELSE chat_sessions,
                          sid, UserMessage(input))
               /\ connections' = [connections EXCEPT
                                     ![c].user_input = input,
                                     ![c].accepted = @ + 1,
                                     ![c].agent_calls = @ + 1,
                                     ![c].wrote = @ \cup {sid},
                                     ![c].pc = "agent"]
    /\ frames' = frames + 1
    /\ UNCHANGED <<agent_initialized, initialization_error, deleted_ids, http_response, calls>>
    /\ UNCHANGED serverRest

\* A frame {"type": "message", "content": content}: lines 1794-1824, up to
\* the await of run_agent_once. A blank message and a message without a
\* session are dropped (line 1803).
ReceiveMessage(c, content) ==
    /\ connections[c].pc = "receive"
    /\ frames < MaxFrames
    /\ \E input \in {Strip(content)} : \E sid \in {connections[c].current_session_id} :
          IF input = <<>> \/ sid = None \/ sid = <<>>
          THEN UNCHANGED <<chat_sessions, connections>>
          ELSE /\ chat_sessions' =
                      AppendMessage(
                          IF sid \notin DOMAIN chat_sessions
                          THEN Put(chat_sessions, sid, Session(TitleOf(input), <<>>))
                          ELSE chat_sessions,
                          sid, UserMessage(input))
               /\ connections' = [connections EXCEPT
                                     ![c].user_input = input,
                                     ![c].accepted = @ + 1,
                                     ![c].agent_calls = @ + 1,
                                     ![c].wrote = @ \cup {sid},
                                     ![c].pc = "agent"]
    /\ frames' = frames + 1
    /\ UNCHANGED <<agent_initialized, initialization_error, deleted_ids, http_response, calls>>
    /\ UNCHANGED serverRest

\* A frame of another type: no branch of lines 1796-1798 is taken.
ReceiveOther(c) ==
    /\ connections[c].pc = "receive"
    /\ frames < MaxFrames
    /\ frames' = frames + 1
    /\ UNCHANGED <<agent_initialized, initialization_error, deleted_ids, chat_sessions,
                   connections, http_response, calls>>
    /\ UNCHANGED serverRest

\* Mutant: the text of a failed invocation is sent as a frame of type error
\* and is not stored.
SendReplyErrorFrame(c, reply) ==
    /\ connections[c].pc = "agent"
    /\ \E sid \in {connections[c].current_session_id} :
          IF reply = TooLongReply
          THEN /\ connections' =
                      [connections EXCEPT
                          ![c].sent = Append(@, Frame("error", reply)),
                          ![c].user_input = None,
                          ![c].deleted_during = FALSE,
                          ![c].pc = "receive"]
               /\ UNCHANGED chat_sessions
          ELSE IF sid \notin DOMAIN chat_sessions
          THEN /\ connections' =
                      [connections EXCEPT
                          ![c].sent = Append(@, Frame("error", KeyErrorText(sid))),
                          ![c].user_input = None,
                          ![c].deleted_during = FALSE,
                          ![c].pc = "receive"]
               /\ UNCHANGED chat_sessions
          ELSE /\ \E appended \in {AppendMessage(chat_sessions, sid,
                                                 AssistantMessage(reply))} :
                     chat_sessions' =
                         IF Len(appended[sid].messages) = 2
                         THEN [appended EXCEPT
                                  ![sid].title = TitleOf(connections[c].user_input)]
                         ELSE appended
               /\ connections' =
                      [connections EXCEPT
                          ![c].sent = Append(@, Frame("response", reply)),
                          ![c].user_input = None,
                          ![c].deleted_during = FALSE,
                          ![c].pc = "receive"]
    /\ UNCHANGED <<agent_initialized, initialization_error, deleted_ids, http_response,
                   frames, calls>>
    /\ UNCHANGED serverRest

\* Mutant: when the invocation failed, the agent is invoked again for the
\* same message instead of the mapped error being delivered.
SendReplyRetry(c, reply) ==
    /\ connections[c].pc = "agent"
    /\ \E sid \in {connections[c].current_session_id} :
          IF reply = TooLongReply
          THEN /\ connections' = [connections EXCEPT ![c].agent_calls = @ + 1]
               /\ UNCHANGED chat_sessions
          ELSE IF sid \notin DOMAIN chat_sessions
          THEN /\ connections' =
                      [connections EXCEPT
                          ![c].sent = Append(@, Frame("error", KeyErrorText(sid))),
                          ![c].user_input = None,
                          ![c].deleted_during = FALSE,
                          ![c].pc = "receive"]
               /\ UNCHANGED chat_sessions
          ELSE /\ \E appended \in {AppendMessage(chat_sessions, sid,
                                                 AssistantMessage(reply))} :
                     chat_sessions' =
                         IF Len(appended[sid].messages) = 2
                         THEN [appended EXCEPT
                                  ![sid].title = TitleOf(connections[c].user_input)]
                         ELSE appended
               /\ connections' =
                      [connections EXCEPT
                          ![c].sent = Append(@, Frame("response", reply)),
                          ![c].user_input = None,
                          ![c].deleted_during = FALSE,
                          ![c].pc = "receive"]
    /\ UNCHANGED <<agent_initialized, initialization_error, deleted_ids, http_response,
                   frames, calls>>
    /\ UNCHANGED serverRest

\* Mutant: the response frame is sent before the transcript is updated, so
\* that a failure of the update sends the error frame after it.
SendReplyResponseFirst(c, reply) ==
    /\ connections[c].pc = "agent"
    /\ \E sid \in {connections[c].current_session_id} :
          IF sid \notin DOMAIN chat_sessions
          THEN /\ connections' =
                      [connections EXCEPT
                          ![c].sent = @ \o <<Frame("response", reply),
                                             Frame("error", KeyErrorText(sid))>>,
                          ![c].user_input = None,
                          ![c].deleted_during = FALSE,
                          ![c].pc = "receive"]
               /\ UNCHANGED chat_sessions
          ELSE /\ \E appended \in {AppendMessage(chat_sessions, sid,
                                                 AssistantMessage(reply))} :
                     chat_sessions' =
                         IF Len(appended[sid].messages) = 2
                         THEN [appended EXCEPT
                                  ![sid].title = TitleOf(connections[c].user_input)]
                         ELSE appended
               /\ connections' =
                      [connections EXCEPT
                          ![c].sent = Append(@, Frame("response", reply)),
                          ![c].user_input = None,
                          ![c].deleted_during = FALSE,
                          ![c].pc = "receive"]
    /\ UNCHANGED <<agent_initialized, initialization_error, deleted_ids, http_response,
                   frames, calls>>
    /\ UNCHANGED serverRest

\* websocket_endpoint from the return of run_agent_once to the next
\* receive_json: lines 1824-1850. When the session is no longer in the
\* store, line 1832 raises KeyError and the handler of line 1847 sends the
\* error frame.
SendReply(c, reply) ==
    /\ connections[c].pc = "agent"
    /\ \E sid \in {connections[c].current_session_id} :
          IF sid \notin DOMAIN chat_sessions
          THEN /\ connections' =
                      [connections EXCEPT
                          ![c].sent = Append(@, Frame("error", KeyErrorText(sid))),
                          ![c].user_input = None,
                          ![c].deleted_during = FALSE,
                          ![c].pc = "receive"]
               /\ UNCHANGED chat_sessions
          ELSE /\ \E appended \in {AppendMessage(chat_sessions, sid,
                                                 AssistantMessage(reply))} :
                     chat_sessions' =
                         IF Len(appended[sid].messages) = 2
                         THEN [appended EXCEPT
                                  ![sid].title = TitleOf(connections[c].user_input)]
                         ELSE appended
               /\ connections' =
                      [connections EXCEPT
                          ![c].sent = Append(@, Frame("response", reply)),
                          ![c].user_input = None,
                          ![c].deleted_during = FALSE,
                          ![c].pc = "receive"]
    /\ UNCHANGED <<agent_initialized, initialization_error, deleted_ids, http_response,
                   frames, calls>>
    /\ UNCHANGED serverRest

\* receive_json raises WebSocketDisconnect: lines 1852-1853.
Disconnect(c) ==
    /\ connections[c].pc = "receive"
    /\ connections' = [connections EXCEPT ![c].pc = "closed"]
    /\ UNCHANGED <<agent_initialized, initialization_error, deleted_ids, chat_sessions,
                   http_response, frames, calls>>
    /\ UNCHANGED serverRest

NextServer ==
    \/ CreateNewChat
    \/ \E sid \in SessionIds : GetChat(sid)
    \/ \E sid \in SessionIds : DeleteChat(sid)
    \/ \E c \in Conns : WebsocketAccept(c)
    \/ \E c \in Conns : \E sid \in SessionIds \cup {None} : ReceiveSetSession(c, sid)
    \/ \E c \in Conns : \E content \in Contents : ReceiveMessage(c, content)
    \/ \E c \in Conns : ReceiveOther(c)
    \/ \E c \in Conns : \E reply \in AgentReplies(connections[c].user_input) :
          SendReply(c, reply)
    \/ \E c \in Conns : Disconnect(c)

SpecServer == InitServer /\ [][NextServer]_vars

-----------------------------------------------------------------------------
(* Claims about fuzzy_match, checked under SpecFuzzy *)

Returned == pc = "fuzzy_match"

\* the positions of the result that hold candidate w
EntriesNamed(w) == {i \in DOMAIN matches : matches[i].name = w}

\* the positions of the candidate list that hold w
Occurrences(w) == {i \in DOMAIN options : options[i] = w}

\* the candidates that have an entry of score sc in the result, in input order
CandidatesScoring(sc) ==
    LET Scores(w) == \E i \in EntriesNamed(w) : ScoreEq(matches[i].score, sc)
    IN SelectSeq(options, Scores)

\* the names of the result's entries of score sc, in result order
NamesScoring(sc) ==
    LET Scores(e) == ScoreEq(e.score, sc)
        es == SelectSeq(matches, Scores)
    IN [i \in DOMAIN es |-> es[i].name]

\* C1: the returned list is ordered by non-increasing score, and the entries
\* of any one score appear in the order of their candidates in the input
\* list; candidates ["Sales", "Sale"] queried with "sale" yield
\* ["Sale", "Sales"].
C1_SortedStable ==
    Returned =>
        /\ \A i, j \in DOMAIN matches :
               i < j => ScoreGeq(matches[i].score, matches[j].score)
        /\ \A i \in DOMAIN matches :
               NamesScoring(matches[i].score) = CandidatesScoring(matches[i].score)
        /\ ( /\ query = <<"s", "a", "l", "e">>
             /\ options = << <<"S", "a", "l", "e", "s">>, <<"S", "a", "l", "e">> >> )
           => [i \in DOMAIN matches |-> matches[i].name]
                = << <<"S", "a", "l", "e">>, <<"S", "a", "l", "e", "s">> >>

\* C1 witness: a result in which two different candidates tie and a later
\* candidate of higher score has been moved in front of them.
C1_Witness ==
    /\ Returned
    /\ Len(matches) = 3 /\ Len(options) = 3
    /\ matches[1].name = options[3]
    /\ matches[2].name = options[1] /\ matches[3].name = options[2]
    /\ options[1] # options[2]
    /\ ScoreEq(matches[2].score, matches[3].score)
    /\ ~ScoreEq(matches[1].score, matches[2].score)

\* C2: a candidate equal to the query ignoring case yields exactly one entry
\* per occurrence, with its own name, score 1.0 and match type exact, and
\* nothing else; fuzzy_match(q, [c]) is exactly that one entry.
C2_ExactOnly ==
    Returned =>
        /\ \A c \in Range(options) :
               Lower(c) = Lower(query) =>
                   /\ Cardinality(EntriesNamed(c)) = Cardinality(Occurrences(c))
                   /\ \A i \in EntriesNamed(c) :
                          /\ matches[i].score = <<1, 1>>
                          /\ matches[i].match_type = "exact"
        /\ (Len(options) = 1 /\ Lower(options[1]) = Lower(query)) =>
               matches = <<[name |-> options[1], score |-> <<1, 1>>,
                            match_type |-> "exact"]>>

\* C2 witness: a single candidate that differs from the query only in case.
C2_Witness ==
    /\ Returned
    /\ Len(options) = 1
    /\ options[1] # query
    /\ Lower(options[1]) = Lower(query)
    /\ Len(matches) = 1

\* whether one lower-cased string is a substring of the other
SubstringRelated(q, c) ==
    \/ Contains(Lower(c), Lower(q))
    \/ Contains(Lower(q), Lower(c))

\* C3: a candidate not equal to the query ignoring case, one of the two
\* being a substring of the other ignoring case, has an entry of match type
\* contains and score exactly 0.9, whatever the threshold and the overlap.
C3_ContainsFixedScore ==
    Returned =>
        \A c \in Range(options) :
            (Lower(c) # Lower(query) /\ SubstringRelated(query, c)) =>
                /\ EntriesNamed(c) # {}
                /\ \A i \in EntriesNamed(c) :
                       /\ matches[i].match_type = "contains"
                       /\ matches[i].score = <<9, 10>>

\* C3 witness: the candidate is a proper substring of the query (the
\* reverse direction), under the non-default threshold.
C3_Witness ==
    /\ Returned
    /\ threshold # DefaultThreshold
    /\ \E i \in DOMAIN matches :
           /\ matches[i].match_type = "contains"
           /\ matches[i].name # <<>>
           /\ Len(matches[i].name) < Len(query)
           /\ Contains(Lower(query), Lower(matches[i].name))

\* C4 as stated: with the empty query only empty candidates have an entry.
C4_EmptyQueryMatchesOnlyEmpty ==
    (Returned /\ query = <<>>) =>
        /\ \A i \in DOMAIN matches :
               matches[i].name = <<>> /\ matches[i].match_type = "exact"
        /\ options = <<>> => matches = <<>>

\* C4 (amended): with the empty query every candidate has an entry, an
\* exact one of score 1.0 when the candidate is empty and a contains one of
\* score 0.9 when it is not; an empty candidate list gives an empty result.
C4_EmptyQueryMatchesAll ==
    (Returned /\ query = <<>>) =>
        /\ Len(matches) = Len(options)
        /\ \A c \in Range(options) :
               Cardinality(EntriesNamed(c)) = Cardinality(Occurrences(c))
        /\ \A i \in DOMAIN matches :
               IF matches[i].name = <<>>
               THEN matches[i].match_type = "exact"
                    /\ matches[i].score = <<1, 1>>
               ELSE matches[i].match_type = "contains"
                    /\ matches[i].score = <<9, 10>>
        /\ options = <<>> => matches = <<>>

\* C4 witness: the empty query against an empty and a non-empty candidate.
C4_Witness ==
    /\ Returned
    /\ query = <<>>
    /\ \E i, j \in DOMAIN options : options[i] = <<>> /\ options[j] # <<>>
    /\ \E i \in DOMAIN matches : matches[i].match_type = "contains"

\* C5 on a returned state: a candidate neither equal to the query ignoring
\* case nor substring related to it has an entry iff its ratio is at least
\* the threshold, the entry then being fuzzy with the ratio as score; no
\* candidate has more entries than occurrences, so the result is no longer
\* than the candidate list.
C5_Returned ==
    Returned =>
        /\ \A c \in Range(options) :
               (Lower(c) # Lower(query) /\ ~SubstringRelated(query, c)) =>
                   \A r \in {Ratio(Lower(query), Lower(c))} :
                      /\ Cardinality(EntriesNamed(c))
                           = IF r[1] * threshold[2] >= threshold[1] * r[2]
                             THEN Cardinality(Occurrences(c)) ELSE 0
                      /\ \A i \in EntriesNamed(c) :
                             /\ matches[i].match_type = "fuzzy"
                             /\ ScoreEq(matches[i].score, r)
        /\ \A i \in DOMAIN matches :
               /\ matches[i].name \in Range(options)
               /\ Cardinality(EntriesNamed(matches[i].name))
                      <= Cardinality(Occurrences(matches[i].name))
        /\ Len(matches) <= Len(options)

\* C5: C5_Returned in every state, and no step changes the candidate list.
C5_FuzzyTier == [](C5_Returned) /\ [][options' = options]_vars

\* C5 witness: one candidate exactly at the default threshold (kept) beside
\* one below it (dropped).
C5_Witness ==
    /\ Returned
    /\ threshold = DefaultThreshold
    /\ Len(matches) < Len(options)
    /\ \E i \in DOMAIN matches :
           /\ matches[i].match_type = "fuzzy"
           /\ matches[i].score[1] * threshold[2] = threshold[1] * matches[i].score[2]

-----------------------------------------------------------------------------
(* Claims about detect_user_intent, parse_measure_request and the hints of *)
(* run_agent_once, checked under SpecUtterance                             *)

\* whether a keyword of kws occurs in the lower-cased utterance
HasKeyword(kws) ==
    \E l \in {Lower(user_input)} : \E w \in Range(kws) : Contains(l, w)

\* C6: detect_user_intent returns the intent of the first of the keyword
\* sets show, create, update, delete that has a keyword in the lower-cased
\* utterance, and unknown exactly when none has; the spec's three examples.
C6_FirstSetWins ==
    pc = "detect_user_intent" =>
        \A show \in {HasKeyword(ShowKeywords)},
           create \in {HasKeyword(CreateKeywords)},
           update \in {HasKeyword(UpdateKeywords)},
           delete \in {HasKeyword(DeleteKeywords)} :
            /\ show => intent = <<"s", "h", "o", "w">>
            /\ (~show /\ create) => intent = <<"c", "r", "e", "a", "t", "e">>
            /\ (~show /\ ~create /\ update)
                   => intent = <<"u", "p", "d", "a", "t", "e">>
            /\ (~show /\ ~create /\ ~update /\ delete)
                   => intent = <<"d", "e", "l", "e", "t", "e">>
            /\ intent = <<"u", "n", "k", "n", "o", "w", "n">>
                   <=> (~show /\ ~create /\ ~update /\ ~delete)
            /\ user_input = <<"s", "h", "o", "w", " ", "t", "o", "t", "a", "l", " ", "s", "a", "l", "e", "s">>
                   => intent = <<"s", "h", "o", "w">>
            /\ user_input = <<"c", "r", "e", "a", "t", "e", " ", "a", " ", "m", "e", "a", "s", "u", "r", "e", " ", "f", "o", "r", " ", "p", "r", "o", "f", "i", "t">>
                   => intent = <<"c", "r", "e", "a", "t", "e">>
            /\ user_input = <<"x", "y", "z">>
                   => intent = <<"u", "n", "k", "n", "o", "w", "n">>

\* C6 witness: an utterance with a show keyword and a keyword of each of
\* create, update or delete behind or before it, classified as show.
C6_Witness ==
    /\ pc = "detect_user_intent"
    /\ HasKeyword(ShowKeywords)
    /\ HasKeyword(CreateKeywords)
    /\ HasKeyword(DeleteKeywords)
    /\ intent = IntentShow

\* the keyword groups as the claim lists them, in its order
C7_Groups ==
    << << <<"S", "U", "M">>, {<<"t", "o", "t", "a", "l">>, <<"s", "u", "m">>} >>,
       << <<"A", "V", "E", "R", "A", "G", "E">>, {<<"a", "v", "e", "r", "a", "g", "e">>, <<"a", "v", "g">>, <<"m", "e", "a", "n">>} >>,
       << <<"C", "O", "U", "N", "T">>, {<<"c", "o", "u", "n", "t">>, <<"n", "u", "m", "b", "e", "r">>} >>,
       << <<"D", "I", "S", "T", "I", "N", "C", "T", "C", "O", "U", "N", "T">>, {<<"u", "n", "i", "q", "u", "e">>, <<"d", "i", "s", "t", "i", "n", "c", "t">>} >>,
       << <<"M", "I", "N">>, {<<"m", "i", "n">>, <<"m", "i", "n", "i", "m", "u", "m">>} >>,
       << <<"M", "A", "X">>, {<<"m", "a", "x">>, <<"m", "a", "x", "i", "m", "u", "m">>} >> >>

\* the groups that have a keyword in the lower-cased utterance
C7_GroupsHit ==
    UNION {{g \in DOMAIN C7_Groups : \E w \in C7_Groups[g][2] : Contains(l, w)} :
              l \in {Lower(user_input)}}

\* C7: the operation is that of the first listed group with a keyword in the
\* lower-cased utterance, and absent exactly when no group has one, with or
\* without a Table[Column] pattern; the spec's two examples.
C7_FirstGroupWins ==
    pc = "parse_measure_request" =>
        \A hit \in {C7_GroupsHit} :
            /\ \A g \in hit :
                   (\A h \in hit : g <= h) => info.operation = C7_Groups[g][1]
            /\ info.operation = None <=> hit = {}
            /\ user_input = <<"t", "o", "t", "a", "l", " ", "s", "a", "l", "e", "s">>
                   => /\ info.operation = <<"S", "U", "M">>
                      /\ info.has_explicit_syntax = FALSE
            /\ user_input = <<"s", "h", "o", "w", " ", "S", "a", "l", "e", "s", "[", "A", "m", "o", "u", "n", "t", "]">>
                   => /\ info.operation = None
                      /\ info.has_explicit_syntax = TRUE

\* C7 witness: keywords of two groups in an utterance that also has a
\* Table[Column] pattern.
C7_Witness ==
    /\ pc = "parse_measure_request"
    /\ Cardinality(C7_GroupsHit) >= 2
    /\ info.has_explicit_syntax
    /\ info.operation # None

\* The Table[Column] patterns that start at position i of s, as <<e, f>>:
\* s[i..e] is an identifier, s[e+1] is "[", s[e+2..f] is a non-empty run of
\* characters of colChars that starts with one of colStart, s[f+1] is "]".
PatternsAt(s, i, colStart, colChars) ==
    IF s[i] \notin IdStartChars THEN {}
    ELSE {m \in {e \in i..(Len(s) - 1) : s[e + 1] = "["}
                 \X {f \in i..(Len(s) - 1) : s[f + 1] = "]"} :
             /\ m[2] >= m[1] + 2
             /\ AllIn(s, i + 1, m[1], WordChars)
             /\ s[m[1] + 2] \in colStart
             /\ AllIn(s, m[1] + 2, m[2], colChars)}

HasPattern(s, colStart, colChars) ==
    \E i \in DOMAIN s : PatternsAt(s, i, colStart, colChars) # {}

\* C8 as stated: the flag is set iff the utterance holds identifier "["
\* identifier "]"; Sales[2013] is not explicit syntax.
C8_ExplicitIffTwoIdentifiers ==
    pc = "parse_measure_request" =>
        /\ info.has_explicit_syntax
               <=> HasPattern(user_input, IdStartChars, WordChars)
        /\ info.table # None <=> info.has_explicit_syntax
        /\ info.column # None <=> info.has_explicit_syntax
        /\ user_input = <<"S", "a", "l", "e", "s", "[", "2", "0", "1", "3", "]">> => ~info.has_explicit_syntax

\* C8 (amended): the flag is set iff the utterance holds an identifier, "[",
\* a non-empty run of word characters (which may start with a digit) and
\* "]"; table and column are present exactly when the flag is set;
\* Sales[2013] is explicit syntax with column 2013.
C8_ExplicitIffIdentifierAndWord ==
    pc = "parse_measure_request" =>
        /\ info.has_explicit_syntax
               <=> HasPattern(user_input, WordChars, WordChars)
        /\ info.table # None <=> info.has_explicit_syntax
        /\ info.column # None <=> info.has_explicit_syntax
        /\ user_input = <<"S", "a", "l", "e", "s", "[", "2", "0", "1", "3", "]">>
               => /\ info.has_explicit_syntax
                  /\ info.column = <<"2", "0", "1", "3">>

\* C8 witness: explicit syntax found with a column that starts with a digit.
C8_Witness ==
    /\ pc = "parse_measure_request"
    /\ info.has_explicit_syntax
    /\ info.column[1] \in Digits
    /\ info.table # None

\* the start positions of the Table[Column] patterns of the utterance
C9_PatternStarts ==
    {i \in DOMAIN user_input :
        PatternsAt(user_input, i, WordChars, WordChars) # {}}

\* the positions of the "]" that close a Table[Column] pattern
C9_PatternEnds ==
    {m[2] + 1 : m \in UNION {PatternsAt(user_input, i, WordChars, WordChars) :
                                i \in DOMAIN user_input}}

\* C9: table and column are the two tokens of the leftmost Table[Column]
\* pattern, in the letter case of the utterance as typed.
C9_LeftmostVerbatim ==
    (pc = "parse_measure_request" /\ info.has_explicit_syntax) =>
        /\ \E i \in C9_PatternStarts :
               /\ \A j \in C9_PatternStarts : i <= j
               /\ \E m \in PatternsAt(user_input, i, WordChars, WordChars) :
                      /\ info.table = SubSeq(user_input, i, m[1])
                      /\ info.column = SubSeq(user_input, m[1] + 2, m[2])
        /\ user_input = <<"a", "d", "d", " ", "S", "a", "l", "e", "s", "[", "A", "m", "t", "]", " ", "t", "o", " ", "C", "o", "s", "t", "[", "Q", "t", "y", "]">>
               => /\ info.table = <<"S", "a", "l", "e", "s">>
                  /\ info.column = <<"A", "m", "t">>

\* C9 witness: two patterns in one utterance, the leftmost with an
\* upper-case letter in its table.
C9_Witness ==
    /\ pc = "parse_measure_request"
    /\ info.has_explicit_syntax
    /\ Cardinality(C9_PatternEnds) >= 2
    /\ info.table # Lower(info.table)

\* the hint list as the claim states it, from the intent and the parse
C10_ExpectedHints ==
    (IF intent # <<"u", "n", "k", "n", "o", "w", "n">>
     THEN << <<"[", "I", "n", "t", "e", "n", "t", ":", " ">> \o Upper(intent) \o <<"]">> >>
     ELSE <<>>)
    \o (IF info.operation # None
        THEN << <<"[", "O", "p", "e", "r", "a", "t", "i", "o", "n", ":", " ">> \o info.operation \o <<"]">> >>
        ELSE <<>>)
    \o (IF info.has_explicit_syntax
        THEN << <<"[", "E", "x", "p", "l", "i", "c", "i", "t", ":", " ">> \o info.table \o <<"[">> \o info.column \o <<"]", "]">>,
                HighConfidenceTag >>
        ELSE << SearchTag >>)

\* C10: the hints are the intent tag iff the intent is not unknown, the
\* operation tag iff an operation was detected, then the explicit tag and
\* the high-confidence tag on explicit syntax and else the search tag;
\* exactly one of the high-confidence and search tags is present; the text
\* for the agent is the utterance, a newline and the hints joined by
\* spaces; the YoY example has exactly the SHOW tag and the search tag.
C10_HintList ==
    pc = "ainvoke" =>
        /\ intent = detect_user_intent(user_input)
        /\ info = parse_measure_request(user_input)
        /\ hints = C10_ExpectedHints
        /\ (HighConfidenceTag \in Range(hints)) # (SearchTag \in Range(hints))
        /\ Cardinality({i \in DOMAIN hints :
                            hints[i] \in {HighConfidenceTag, SearchTag}}) = 1
        /\ enhanced = user_input \o <<"\n">> \o Join(hints, <<" ">>)
        /\ user_input =
               <<"s", "h", "o", "w", " ", "Y", "o", "Y", " ", "g", "r", "o",
                 "w", "t", "h", " ", "f", "r", "o", "m", " ", "2", "0", "1",
                 "3", " ", "t", "o", " ", "2", "0", "1", "4">>
               => hints = << <<"[", "I", "n", "t", "e", "n", "t", ":", " ", "S", "H", "O", "W", "]">>,
                             SearchTag >>

\* C10 witness: all four tags, for an utterance with an intent, an
\* operation and explicit syntax.
C10_Witness ==
    /\ pc = "ainvoke"
    /\ Len(hints) = 4
    /\ hints[4] = HighConfidenceTag
    /\ intent # IntentUnknown
    /\ info.operation # None

-----------------------------------------------------------------------------
(* Claims about the reply of run_agent_once, checked under SpecAgent *)

\* The positions at which tag occurs in text
TagPositions(text, tag) ==
    {i \in 1..(Len(text) - Len(tag) + 1) :
        SubSeq(text, i, i + Len(tag) - 1) = tag}

\* The call returned from inside the scan, with a text taken from an
\* assistant message
TakenFromAssistant == pc = "return" /\ cleaned # <<>>

\* C11: whenever run_agent_once returns a text taken from an assistant
\* message, the returned text contains no occurrence of any hint tag of the
\* request.
C11_NoHintTagLeft ==
    TakenFromAssistant =>
        \A k \in DOMAIN hints : TagPositions(response, hints[k]) = {}

\* The textual content of a message: the str itself, or the text items of
\* the list that are not blank, joined by newlines
TextOf(msg) ==
    IF msg.content.kind = "str" THEN msg.content.value
    ELSE JoinTexts(Texts(msg.content.value))

\* The assistant messages of the result whose textual content is not empty
\* and not white space only
AssistantsWithText ==
    {i \in DOMAIN all_messages :
        /\ all_messages[i].type \in AssistantTypes
        /\ NonBlank(TextOf(all_messages[i]))}

\* The text with every hint removed and trimmed, as the scan answers it
Stripped(text) ==
    LET trace == RemoveHints(text, hints) IN Strip(trace[Len(trace)])

\* C12: when the result is not empty and has no assistant message with
\* content, the reply is the text of the last message, whatever its role,
\* with the hints removed as for an assistant text, and the fixed
\* placeholder when that message has no text.
C12_FallbackStripped ==
    (pc = "return" /\ all_messages # <<>> /\ AssistantsWithText = {}) =>
        LET last == all_messages[Len(all_messages)]
        IN  IF NonBlank(TextOf(last))
            THEN /\ \A k \in DOMAIN hints :
                        TagPositions(response, hints[k]) = {}
                 /\ last.content.kind = "str" => response = Stripped(TextOf(last))
            ELSE response = OperationCompleted

\* C13: the reply is the text of the most recent assistant message whose
\* textual content is not empty: assistant messages whose content is empty
\* or white space only, as a str or as a list, are passed over.
C13_MostRecentAssistantText ==
    (pc = "return" /\ AssistantsWithText # {}) =>
        \E i \in AssistantsWithText :
            /\ \A k \in AssistantsWithText : k <= i
            /\ response = Stripped(TextOf(all_messages[i]))

\* The categories of an error in the order they are tested
ErrorCategories ==
    << [keywords |-> NotFoundKeywords, reply |-> NotFoundReply],
       [keywords |-> SyntaxKeywords, reply |-> SyntaxReply],
       [keywords |-> TooLongKeywords, reply |-> TooLongReply] >>

\* The categories one of whose keywords occurs in the lower-cased error
CategoriesHit ==
    {c \in DOMAIN ErrorCategories :
        \E k \in DOMAIN ErrorCategories[c].keywords :
            TagPositions(Lower(error), ErrorCategories[c].keywords[k]) # {}}

\* C14: when ainvoke raises, run_agent_once returns the fixed text of the
\* first category (not found, syntax, too long) a keyword of which occurs
\* in the lower-cased error, and the generic text followed by the error
\* when no category is hit; only the generic reply carries the error text.
C14_ErrorCategory ==
    pc = "except" =>
        \A hit \in {CategoriesHit} :
            IF hit = {} THEN response = GenericReplyOpen \o error
            ELSE \E c \in hit :
                    /\ \A d \in hit : c <= d
                    /\ response = ErrorCategories[c].reply

\* An error with a syntax and a too-long keyword was answered as a syntax
\* error, and no reply but the generic one depends on the error.
C14_Witness ==
    /\ pc = "except"
    /\ CategoriesHit = {2, 3}
    /\ response = SyntaxReply

\* text without the n characters from position i on
Without(text, i, n) ==
    SubSeq(text, 1, i - 1) \o SubSeq(text, i + n, Len(text))

\* s is t without the white space at its two ends
IsTrimOf(s, t) ==
    \E a \in 1..(Len(t) + 1) : \E b \in 0..Len(t) :
        /\ s = SubSeq(t, a, b)
        /\ \A i \in 1..(a - 1) : t[i] \in Whitespace
        /\ \A i \in (b + 1)..Len(t) : t[i] \in Whitespace
        /\ s # <<>> => s[1] \notin Whitespace /\ s[Len(s)] \notin Whitespace

\* The occurrences of the hints of the request in a text: <<k, i>> for
\* hint k at position i
HintOccurrences(text) ==
    {ki \in (DOMAIN hints) \X (1..Len(text)) :
        ki[2] \in TagPositions(text, hints[ki[1]])}

\* C17 as stated: the reply for an assistant text without any hint tag is
\* the text unchanged, and for a text with one occurrence of one hint tag
\* it is the text without exactly that occurrence.
C17_StripExactly ==
    TakenFromAssistant =>
        \A occ \in {HintOccurrences(cleaned[1])} :
            /\ occ = {} => response = cleaned[1]
            /\ \A ki \in occ :
                  occ = {ki} =>
                      response = Without(cleaned[1], ki[2], Len(hints[ki[1]]))

\* C17, amended: each removal of one hint leaves a text without that tag
\* unchanged and takes exactly the occurrence out of a text that has the
\* tag once; the reply is the last text without the white space at its
\* ends.
C17_StripEachTag ==
    TakenFromAssistant =>
        /\ Len(cleaned) = Len(hints) + 1
        /\ \A k \in DOMAIN hints :
              \A occ \in {TagPositions(cleaned[k], hints[k])} :
                  /\ occ = {} => cleaned[k + 1] = cleaned[k]
                  /\ \A i \in occ :
                        occ = {i} =>
                            cleaned[k + 1] = Without(cleaned[k], i, Len(hints[k]))
        /\ IsTrimOf(response, cleaned[Len(cleaned)])

\* A text with one occurrence of a hint was cleaned of it, a later hint
\* found nothing to remove, and the reply lost white space at an end.
C17_Witness ==
    /\ TakenFromAssistant
    /\ \E k \in DOMAIN hints :
          /\ Cardinality(TagPositions(cleaned[k], hints[k])) = 1
          /\ Len(cleaned[k + 1]) = Len(cleaned[k]) - Len(hints[k])
    /\ \E k \in DOMAIN hints : TagPositions(cleaned[k], hints[k]) = {}
    /\ response # cleaned[Len(cleaned)]

-----------------------------------------------------------------------------
(* Claims about search_tables_and_columns, checked under SpecSearch *)

Searched == pc = "search_tables_and_columns"

\* C15: search_tables_and_columns never raises; when the tool discovery
\* fails it returns the result with its four lists empty, and when the
\* invocation of the selected tool fails it returns with empty tables and
\* columns and so with empty match lists.
C15_NeverRaises ==
    Searched =>
        /\ raised = FALSE
        /\ tools.kind = "raise" =>
              /\ result.tables.value = <<>>
              /\ result.columns.value = <<>>
              /\ result.table_matches = <<>>
              /\ result.column_matches = <<>>
        /\ schema_result.kind = "raise" =>
              /\ result.tables.value = <<>>
              /\ result.columns.value = <<>>
              /\ result.table_matches = <<>>
              /\ result.column_matches = <<>>

\* The selected tool was invoked with both queries given, the invocation
\* failed, and the call returned.
C15_Witness ==
    /\ Searched
    /\ invoked # <<>>
    /\ schema_result.kind = "raise"
    /\ Truthy(table_query)
    /\ Truthy(column_query)
    /\ result = EmptyResult

\* The matches the claim gives a query against a fetched list of names
ClaimedMatches(q, names) ==
    IF Truthy(q) /\ names # <<>>
    THEN fuzzy_match(q, names, DefaultThreshold)
    ELSE <<>>

\* C16: table_matches is fuzzy_match(table_query, tables) when a table
\* query was given and the fetched tables are not empty, and the empty list
\* in every other case; the same holds, independently, for column_query,
\* columns and column_matches.
C16_MatchesPerQuery ==
    Searched =>
        /\ result.tables.kind = "names" =>
              result.table_matches
                  = ClaimedMatches(table_query, result.tables.value)
        /\ result.columns.kind = "names" =>
              result.column_matches
                  = ClaimedMatches(column_query, result.columns.value)

-----------------------------------------------------------------------------
(* Claims about the websocket endpoint and the chat API, checked under     *)
(* SpecServer                                                              *)

\* C18: on a connection, every message that is not blank and has a session
\* gets exactly one reply, a response or an error, before the next message
\* of the connection is handled: while a message is with the agent every
\* earlier one has its reply and this one has none, and between messages
\* there are as many replies as messages.
C18_OneReplyPerMessage ==
    agent_initialized =>
        \A c \in Conns :
            /\ \A i \in DOMAIN connections[c].sent :
                  connections[c].sent[i].type \in {"response", "error"}
            /\ Len(connections[c].sent)
                  = IF connections[c].pc = "agent"
                    THEN connections[c].accepted - 1
                    ELSE connections[c].accepted

\* A connection got an error for its first message (its session was deleted
\* meanwhile) and a response for its second.
C18_Witness ==
    \E c \in Conns :
        /\ connections[c].pc = "receive"
        /\ connections[c].accepted = 2
        /\ Len(connections[c].sent) = 2
        /\ connections[c].sent[1].type = "error"
        /\ connections[c].sent[2].type = "response"

\* C19: when the agent failed to initialise, a connection is answered with
\* the initialisation error and closed: no message is accepted, the agent
\* is never called, and the session store holds only what the chat API put
\* there.
C19_RejectedWithoutAgent ==
    ~agent_initialized =>
        /\ \A c \in Conns :
              /\ connections[c].pc \in {"idle", "closed"}
              /\ connections[c].accepted = 0
              /\ connections[c].agent_calls = 0
              /\ connections[c].pc = "closed" =>
                    /\ Len(connections[c].sent) = 1
                    /\ connections[c].sent[1].type = "error"
                    /\ connections[c].sent[1].content
                          = NotInitializedOpen
                            \o (IF initialization_error = <<>>
                                THEN UnknownError ELSE initialization_error)
              /\ connections[c].pc = "idle" => connections[c].sent = <<>>
        /\ \A sid \in DOMAIN chat_sessions :
              chat_sessions[sid] = Session(NewChatTitle, <<>>)

\* Without an agent both connections were closed with the error, and a
\* session made by the chat API is in the store.
C19_Witness ==
    /\ ~agent_initialized
    /\ initialization_error # <<>>
    /\ \A c \in Conns :
          /\ connections[c].pc = "closed"
          /\ connections[c].sent
                = <<Frame("error", NotInitializedOpen \o initialization_error)>>
    /\ DOMAIN chat_sessions # {}

\* The positions of the messages of a role in a transcript
WithRole(messages, role) ==
    {i \in DOMAIN messages : messages[i].role = role}

\* C20: the title of every session that holds a completed exchange (a user
\* message and an assistant message after it) is the first user message of
\* its transcript cut to 50 characters, followed by '...' when the message
\* is longer.
C20_TitleFromFirstMessage ==
    \A sid \in DOMAIN chat_sessions :
        \A session \in {chat_sessions[sid]} :
            \A users \in {WithRole(session.messages, "user")} :
                (\E i \in users :
                    \E j \in WithRole(session.messages, "assistant") : i < j)
                => \E first \in users :
                      /\ \A i \in users : first <= i
                      /\ session.title
                            = TitleOf(session.messages[first].content)

\* C21: a get_chat or delete_chat call for an id that is not in the store
\* returns the 'Chat not found' marker and leaves the store as it was; a
\* delete_chat call for an id that is in the store returns success, takes
\* exactly that id out of the store and leaves every other session as it
\* was; a get_chat call for such an id returns the session and changes
\* nothing.
C21_NotFoundMarker ==
    [][\A sid \in SessionIds :
          /\ (GetChat(sid) \/ DeleteChat(sid)) /\ sid \notin DOMAIN chat_sessions
                => /\ http_response' = [kind |-> "error", id |-> ChatNotFound,
                                        session |-> Session(<<>>, <<>>)]
                   /\ chat_sessions' = chat_sessions
          /\ DeleteChat(sid) /\ sid \in DOMAIN chat_sessions
                => /\ http_response'.kind = "success"
                   /\ DOMAIN chat_sessions' = DOMAIN chat_sessions \ {sid}
                   /\ \A other \in DOMAIN chat_sessions' :
                         chat_sessions'[other] = chat_sessions[other]
          /\ GetChat(sid) /\ sid \in DOMAIN chat_sessions
                => /\ http_response'.kind = "session"
                   /\ http_response'.session = chat_sessions[sid]
                   /\ chat_sessions' = chat_sessions]_vars

\* A call for an id that is not in the store was answered with the marker
\* while another session, with a message in it, is in the store.
C21_Witness ==
    /\ http_response = ErrorResponse
    /\ \E sid \in DOMAIN chat_sessions : chat_sessions[sid].messages # <<>>

\* The agent invocations of a connection that have not been answered yet
Outstanding(c) == connections[c].agent_calls - Len(connections[c].sent)

\* C22: a connection has at most one agent invocation outstanding, and has
\* one exactly while its handler waits for the agent. While it waits, no
\* frame of the connection is taken: its session id, its message and its
\* counts of accepted messages and of invocations stay as they are until
\* the reply, which is one frame and, when it is a response, is stored
\* under the session id the message was received with.
C22_OneAtATime ==
    /\ [](agent_initialized =>
            \A c \in Conns :
                /\ Outstanding(c) \in {0, 1}
                /\ Outstanding(c) = 1 <=> connections[c].pc = "agent")
    /\ [][\A c \in Conns :
            connections[c].pc = "agent" =>
                /\ connections'[c].current_session_id
                      = connections[c].current_session_id
                /\ connections'[c].accepted = connections[c].accepted
                /\ connections'[c].agent_calls = connections[c].agent_calls
                /\ \/ /\ connections'[c].pc = "agent"
                      /\ connections'[c].user_input = connections[c].user_input
                      /\ connections'[c].sent = connections[c].sent
                   \/ /\ connections'[c].pc = "receive"
                      /\ Len(connections'[c].sent) = Len(connections[c].sent) + 1
                      /\ \A sid \in {connections[c].current_session_id} :
                         \A frame \in {connections'[c].sent[Len(connections'[c].sent)]} :
                            frame.type = "response" =>
                               /\ sid \in DOMAIN chat_sessions
                               /\ chat_sessions'[sid].messages
                                     = Append(chat_sessions[sid].messages,
                                              [role |-> "assistant",
                                               content |-> frame.content])]_vars

\* A connection waits for the agent with its second message, the first one
\* answered, while more frames can still arrive.
C22_Witness ==
    \E c \in Conns :
        /\ connections[c].pc = "agent"
        /\ connections[c].accepted = 2
        /\ Len(connections[c].sent) = 1
        /\ frames < MaxFrames

-----------------------------------------------------------------------------
(* Further claims about search_tables_and_columns, checked under           *)
(* SpecSearch                                                              *)

\* The keywords of the claim, and the positions of the tools whose
\* lower-cased name contains one of them
SchemaWords ==
    { <<"l", "i", "s", "t">>, <<"g", "e", "t">>,
      <<"s", "c", "h", "e", "m", "a">>, <<"t", "a", "b", "l", "e", "s">>,
      <<"d", "e", "s", "c", "r", "i", "b", "e">> }
SchemaTools(names) ==
    {i \in DOMAIN names : \E w \in SchemaWords : Contains(Lower(names[i]), w)}

\* C23: a call invokes at most one tool, whatever the invocation gives.
\* When the discovery gave tools of which some have a name that, in lower
\* case, contains list, get, schema, tables or describe, the one invocation
\* is of the first of them and has no arguments; otherwise no tool is
\* invoked and tables and columns are returned empty.
C23_FirstListToolOnce ==
    Searched =>
        /\ Len(invoked) <= 1
        /\ \A candidates \in {IF tools.kind = "tools"
                               THEN SchemaTools(tools.names) ELSE {}} :
              IF candidates = {}
              THEN /\ invoked = <<>>
                   /\ result.tables.value = <<>>
                   /\ result.columns.value = <<>>
              ELSE \E first \in candidates :
                      /\ \A i \in candidates : first <= i
                      /\ invoked = <<[name |-> tools.names[first], args |-> <<>>]>>

\* Two tools with different names that both contain a keyword were found,
\* the first was invoked, its invocation failed and the second was not
\* tried.
C23_Witness ==
    /\ Searched
    /\ tools.kind = "tools"
    /\ SchemaTools(tools.names) = {1, 2}
    /\ tools.names[1] # tools.names[2]
    /\ schema_result.kind = "raise"
    /\ Len(invoked) = 1
    /\ invoked[1].name = tools.names[1]

\* What the claim has a field of the result hold: the names under the key
\* when the invocation gave a dict with a list of names under it, and the
\* empty list for every other outcome
ClaimedField(schema, value) ==
    IF schema.kind = "dict" /\ value.kind = "names" THEN value.value ELSE <<>>

\* C24: tables holds the names the invocation gave under 'tables' when it
\* gave a dict with a list of names under that key, and is the empty list
\* for every other outcome (an exception, a text, a dict without the key,
\* a dict with something else than a list of names under it); likewise
\* columns; and the call does not raise.
C24_PopulatedFromNamesOnly ==
    Searched =>
        /\ raised = FALSE
        /\ result.tables = [kind |-> "names",
                            value |-> ClaimedField(schema_result, schema_result.tables)]
        /\ result.columns = [kind |-> "names",
                             value |-> ClaimedField(schema_result, schema_result.columns)]

-----------------------------------------------------------------------------
(* Further claims about the websocket endpoint and the chat API, checked   *)
(* under SpecServer                                                        *)

\* C25: in every step, the transcript of a session that is in the store
\* before and after the step is left as it was or gets one message at its
\* end, and a session leaves the store only by a delete_chat call that
\* returns success.
C25_TranscriptGrows ==
    [][/\ \A sid \in DOMAIN chat_sessions \cap DOMAIN chat_sessions' :
             \A before \in {chat_sessions[sid].messages} :
             \A after \in {chat_sessions'[sid].messages} :
                /\ Len(after) \in {Len(before), Len(before) + 1}
                /\ SubSeq(after, 1, Len(before)) = before
       /\ \A sid \in DOMAIN chat_sessions \ DOMAIN chat_sessions' :
             /\ calls' = calls + 1
             /\ http_response'.kind = "success"
             /\ DOMAIN chat_sessions' = DOMAIN chat_sessions \ {sid}]_vars

\* A transcript has grown to three messages, and a delete_chat call has
\* taken another session out of the store.
C25_Witness ==
    /\ \E sid \in DOMAIN chat_sessions : Len(chat_sessions[sid].messages) >= 3
    /\ http_response = SuccessResponse

\* C26: on every connection the agent has been invoked as many times as
\* messages were accepted, whether the invocations failed or not, and the
\* step that ends an invocation makes no other: it leaves the count of
\* invocations as it is and sends the reply.
C26_InvokedOncePerMessage ==
    /\ [](\A c \in Conns : connections[c].agent_calls = connections[c].accepted)
    /\ [][\A c \in Conns :
            connections[c].pc = "agent" =>
                /\ connections'[c].agent_calls = connections[c].agent_calls
                /\ \/ /\ connections'[c].pc = "agent"
                      /\ connections'[c].sent = connections[c].sent
                   \/ /\ connections'[c].pc = "receive"
                      /\ Len(connections'[c].sent)
                            = Len(connections[c].sent) + 1]_vars

\* The invocation for the first message of a connection failed, the mapped
\* error was sent, and the agent was invoked for a second message: two
\* messages, two invocations.
C26_Witness ==
    \E c \in Conns :
        /\ connections[c].sent # <<>>
        /\ connections[c].sent[1].content = TooLongReply
        /\ connections[c].pc = "agent"
        /\ connections[c].accepted = 2
        /\ connections[c].agent_calls = 2

\* C27: when the session of the message a connection is handling was
\* deleted since the message was received, the step that ends the agent
\* invocation leaves the store as it is (the session is not created again
\* and no assistant message is stored), sends one frame, of type error, and
\* takes the handler back to receiving.
C27_DeletedThenError ==
    [][\A c \in Conns :
          /\ connections[c].pc = "agent"
          /\ connections[c].deleted_during
          /\ connections'[c].pc # "agent"
          => /\ chat_sessions' = chat_sessions
             /\ connections'[c].pc = "receive"
             /\ Len(connections'[c].sent) = Len(connections[c].sent) + 1
             /\ connections'[c].sent[Len(connections'[c].sent)].type = "error"]_vars

\* The connections that wrote to the store under a session id, and the
\* sessions in the store that one connection at most wrote to and that
\* were never deleted
Writers(sid) == {c \in Conns : sid \in connections[c].wrote}
SingleWriterSessions ==
    {sid \in DOMAIN chat_sessions :
        Cardinality(Writers(sid)) <= 1 /\ sid \notin deleted_ids}

\* C28: in the transcript of a session that a single connection writes to
\* and that was never deleted, the messages at odd positions are user
\* messages and those at even positions assistant messages, and the length
\* is even unless a connection waits for the agent with a message of that
\* session.
C28_Alternates ==
    \A sid \in SingleWriterSessions :
        \A messages \in {chat_sessions[sid].messages} :
            /\ \A i \in DOMAIN messages :
                  messages[i].role = IF i % 2 = 1 THEN "user" ELSE "assistant"
            /\ (\A c \in Conns :
                   ~(connections[c].pc = "agent"
                     /\ connections[c].current_session_id = sid))
               => Len(messages) % 2 = 0

\* A connection waits for the agent with the second message of a session
\* that only it has written to and that was never deleted; the other
\* connection is being served too.
C28_Witness ==
    \E sid \in SingleWriterSessions :
        /\ Len(chat_sessions[sid].messages) = 3
        /\ Cardinality(Writers(sid)) = 1
        /\ \A c \in Conns : connections[c].pc \in {"receive", "agent"}

\* C29: a message frame whose content is not blank, taken by a connection
\* whose session id was deleted and is not in the store, puts a session
\* under that id whose transcript is that message alone and whose title is
\* the message cut to 50 characters (with '...' when it is longer), and
\* leaves the other sessions as they were. A message frame taken by a
\* connection that has no session id changes neither the store nor the
\* connection: no invocation, no frame sent, the handler receives again.
C29_RecreatedFresh ==
    [][\A c \in Conns : \A content \in Contents :
          ReceiveMessage(c, content) =>
             \A sid \in {connections[c].current_session_id} :
             \A input \in {Strip(content)} :
                /\ (input # <<>> /\ sid \in deleted_ids
                      /\ sid \notin DOMAIN chat_sessions)
                   => /\ DOMAIN chat_sessions' = DOMAIN chat_sessions \cup {sid}
                      /\ chat_sessions'[sid].messages
                            = <<[role |-> "user", content |-> input]>>
                      /\ chat_sessions'[sid].title = TitleOf(input)
                      /\ \A other \in DOMAIN chat_sessions :
                            chat_sessions'[other] = chat_sessions[other]
                      /\ connections'[c].pc = "agent"
                /\ sid = None
                   => /\ chat_sessions' = chat_sessions
                      /\ connections'[c].agent_calls = connections[c].agent_calls
                      /\ connections'[c].sent = connections[c].sent
                      /\ connections'[c].pc = "receive"]_vars

\* A connection had its first message answered in a session that was then
\* deleted; its second message made the session again, with that message
\* alone in the transcript.
C29_Witness ==
    \E c \in Conns : \E sid \in deleted_ids \cap DOMAIN chat_sessions :
        /\ connections[c].current_session_id = sid
        /\ connections[c].pc = "agent"
        /\ connections[c].accepted = 2
        /\ connections[c].sent # <<>>
        /\ connections[c].sent[1].type = "response"
        /\ chat_sessions[sid].messages
              = <<UserMessage(connections[c].user_input)>>
        /\ chat_sessions[sid].title = TitleOf(connections[c].user_input)

\* The texts run_agent_once returns when the invocation raised
FailureReplies == {ErrorReply(e) : e \in Errors}

\* C30: at the step that ends an invocation, the frame sent is of type
\* error only when the session is not in the store (the append of the
\* endpoint raises), and then carries the text of that exception and
\* nothing is stored. When the invocation failed and the session is in the
\* store, the frame is of type response, carries a text that
\* run_agent_once maps an exception to, and that text is appended to the
\* transcript as an assistant message.
C30_FailureIsResponse ==
    [][\A c \in Conns :
          connections[c].pc = "agent" /\ connections'[c].pc # "agent" =>
             \A sid \in {connections[c].current_session_id} :
             \A frame \in {connections'[c].sent[Len(connections'[c].sent)]} :
                /\ Len(connections'[c].sent) = Len(connections[c].sent) + 1
                /\ frame.type = "error" =>
                      /\ sid \notin DOMAIN chat_sessions
                      /\ frame.content = <<"'">> \o sid \o <<"'">>
                      /\ chat_sessions' = chat_sessions
                /\ (connections[c].user_input = LongInput
                      /\ sid \in DOMAIN chat_sessions)
                   => /\ frame.type = "response"
                      /\ frame.content \in FailureReplies
                      /\ chat_sessions'[sid].messages
                            = Append(chat_sessions[sid].messages,
                                     [role |-> "assistant",
                                      content |-> frame.content])]_vars

\* The invocation for a message failed; the mapped text was sent as a
\* response and is the last message of the transcript, an assistant
\* message, and the handler is receiving again.
C30_Witness ==
    \E c \in Conns : \E sid \in DOMAIN chat_sessions :
        \A messages \in {chat_sessions[sid].messages} :
            /\ connections[c].current_session_id = sid
            /\ connections[c].pc = "receive"
            /\ connections[c].sent = <<Frame("response", TooLongReply)>>
            /\ messages = <<UserMessage(LongInput), AssistantMessage(TooLongReply)>>
            /\ TooLongReply \in FailureReplies

====
